---- MODULE Spec2Model ----
(***************************************************************************)
(* Optimistic-update and background-reconciliation engine of the resource  *)
(* planner front end: the event bus and the optimistic update tracker of   *)
(* hooks/useRealtimeSync.ts, the reconciliation engine of                  *)
(* context/BackgroundSyncContext.tsx (src/unnamed/part_006), and the store *)
(* of AppProvider with its optimistic write flows.                         *)
(*                                                                         *)
(* Nine specifications share the variables:                               *)
(*   SpecBus      subscribe / unsubscribe / emit with throwing listeners   *)
(*   SpecTracker  addOptimisticUpdate / confirm / revert / expiry timers   *)
(*   SpecDiff     checkForChanges on pairs of snapshots                    *)
(*   SpecSync     login, performSync and its triggers against a changing   *)
(*                remote authority                                         *)
(*   SpecResume   performSync resuming after its await, on pairs of        *)
(*                snapshots                                                *)
(*   SpecTriggers the interval, the online / focus timeouts and            *)
(*                toggleAutoSync in a running session                      *)
(*   SpecWrites   the write flows of the store, the remote authority       *)
(*                answering them, their timeouts and a forced sync         *)
(*   SpecConverge syncs triggered without end under fair scheduling, the   *)
(*                remote authority changing and one write flow             *)
(*   SpecIds      two add flows reading Date.now() in one millisecond or   *)
(*                in successive ones                                       *)
(***************************************************************************)
EXTENDS Integers, Sequences, FiniteSets, TLC

VARIABLES
    listeners,       \* listeners.current: event type -> insertion-ordered set of listeners
    hist,            \* history of the subscribe / unsubscribe calls made so far
    lastEmit,        \* what the emit call just made did: listeners invoked, outcome
    pendingUpdates,  \* pendingUpdates.current: id -> OptimisticUpdate
    timers,          \* expiry timers scheduled by setTimeout and not yet fired
    now,             \* Date.now()
    events,          \* every event constructed by emit, in order
    regs,            \* one record per addOptimisticUpdate call made so far
    lastOp,          \* the tracker / engine call just made and how it returned
    currentUser,     \* store: state.currentUser
    token,           \* store: state.token
    localStorage,    \* the persisted credential: localStorage's item 'token'
    engineers,       \* store: state.engineers
    projects,        \* store: state.projects
    assignments,     \* store: state.assignments
    lastSyncDataRef, \* engine: lastSyncDataRef.current
    isAutoSyncEnabledRef, \* engine: isAutoSyncEnabledRef.current
    isOnline,        \* hook: isOnline.current, set by the online / offline handlers
    visibilityState, \* document.visibilityState
    syncs,           \* one record per performSync invocation that passed the session check
    syncTimers,      \* the engine's interval and setTimeout(performSync, delay) timers
    server,          \* the remote authority's collections
    isSyncing,       \* RealtimeProvider: the isSyncing state
    realtimeIsOnline, \* isOnline of the context value made by RealtimeProvider's last render
    effectApp,       \* useApp() as closed over by the effects that depend on [realtime]
    loads,           \* one record per fetchAllData call made so far
    writes           \* one record per optimistic write flow of the store started so far

trackerVarsButEvents == <<pendingUpdates, timers, now, regs, lastOp>>
busVars == <<listeners, hist, lastEmit>>
trackerVars == <<pendingUpdates, timers, now, events, regs, lastOp>>
storeVars == <<currentUser, token, engineers, projects, assignments>>
engineVars == <<lastSyncDataRef, isAutoSyncEnabledRef, isOnline, visibilityState, syncs, syncTimers, server,
                isSyncing, realtimeIsOnline, effectApp, loads, writes>>
vars == <<listeners, hist, lastEmit, pendingUpdates, timers, now, events, regs, lastOp,
          currentUser, token, localStorage, engineers, projects, assignments,
          lastSyncDataRef, isAutoSyncEnabledRef, isOnline, visibilityState, syncs, syncTimers, server,
          isSyncing, realtimeIsOnline, effectApp, loads, writes>>

Range(s) == {s[i] : i \in 1..Len(s)}

(***************************************************************************)
(* Event bus                                                               *)
(***************************************************************************)

\* RealtimeProvider constructs the hook with enableBroadcast: true.
enableBroadcast == TRUE

Wildcard == "*"
EventTypes == {"a", "b", Wildcard}
Listeners == {"f", "g"}

\* Number of subscribe / unsubscribe calls explored.
MaxCalls == 3

NoEmit == [type |-> "none", invoked |-> <<>>, thrown |-> {}, threw |-> FALSE]

\* A JavaScript Set keeps insertion order; add of a present element changes nothing.
SetAdd(s, x) == IF x \in Range(s) THEN s ELSE Append(s, x)
SetDelete(s, x) == SelectSeq(s, LAMBDA y : y # x)

\* listeners.current.get(type): undefined is rendered as the empty set.
ListenersOf(ls, type) == IF type \in DOMAIN ls THEN ls[type] ELSE <<>>

subscribe(ls, type, listener) ==
    [k \in DOMAIN ls \cup {type} |->
        IF k = type THEN SetAdd(ListenersOf(ls, type), listener) ELSE ls[k]]

\* The closure returned by subscribe(type, listener).
unsubscribe(ls, type, listener) ==
    IF type \in DOMAIN ls
    THEN LET rest == SetDelete(ls[type], listener) IN
         IF Len(rest) = 0
         THEN [k \in DOMAIN ls \ {type} |-> ls[k]]
         ELSE [ls EXCEPT ![type] = rest]
    ELSE ls

\* The invoked prefix of s when the first listener in thr stops the iteration.
RECURSIVE UpToFirstThrow(_, _)
UpToFirstThrow(s, thr) ==
    IF s = <<>> THEN <<>>
    ELSE IF Head(s) \in thr THEN <<Head(s)>>
    ELSE <<Head(s)>> \o UpToFirstThrow(Tail(s), thr)

\* A bug: forEach without the try/catch around listener(event).
forEachListenerUncaught(set, thr) ==
    [invoked |-> UpToFirstThrow(set, thr),
     threw |-> Range(set) \cap thr # {}]

\* set.forEach(listener => { try { listener(event) } catch { console.error } }):
\* thr is the set of listener functions that throw when called with this event.
forEachListener(set, thr) ==
    [invoked |-> set, threw |-> FALSE]

\* emit(type, payload, source) as seen by the listeners.
emit(ls, type, thr) ==
    IF ~enableBroadcast THEN [NoEmit EXCEPT !.type = type]
    ELSE LET typed == forEachListener(ListenersOf(ls, type), thr) IN
         IF typed.threw
         THEN [type |-> type, invoked |-> typed.invoked,
               thrown |-> Range(typed.invoked) \cap thr, threw |-> TRUE]
         ELSE LET global == forEachListener(ListenersOf(ls, Wildcard), thr) IN
              [type |-> type, invoked |-> typed.invoked \o global.invoked,
               thrown |-> Range(typed.invoked \o global.invoked) \cap thr,
               threw |-> global.threw]

Subscribe(type, listener) ==
    /\ Len(hist) < MaxCalls
    /\ listeners' = subscribe(listeners, type, listener)
    /\ hist' = Append(hist, [op |-> "subscribe", type |-> type, fn |-> listener, h |-> 0])
    /\ lastEmit' = NoEmit
    /\ UNCHANGED <<trackerVars, storeVars, localStorage, engineVars>>

\* Calling the closure returned by the h-th call, a subscribe; a closure can be
\* called any number of times.
Unsubscribe(h) ==
    /\ Len(hist) < MaxCalls
    /\ h \in 1..Len(hist)
    /\ hist[h].op = "subscribe"
    /\ listeners' = unsubscribe(listeners, hist[h].type, hist[h].fn)
    /\ hist' = Append(hist, [op |-> "unsubscribe", type |-> hist[h].type,
                             fn |-> hist[h].fn, h |-> h])
    /\ lastEmit' = NoEmit
    /\ UNCHANGED <<trackerVars, storeVars, localStorage, engineVars>>

Emit(type, thr) ==
    /\ lastEmit' = emit(listeners, type, thr)
    /\ UNCHANGED <<listeners, hist>>
    /\ UNCHANGED <<trackerVars, storeVars, localStorage, engineVars>>

BusInit ==
    /\ listeners = <<>>
    /\ hist = <<>>
    /\ lastEmit = NoEmit

TrackerIdle ==
    /\ pendingUpdates = <<>>
    /\ timers = {}
    /\ now = 0
    /\ events = <<>>
    /\ regs = <<>>
    /\ lastOp = [op |-> "none", id |-> "", reg |-> 0, hit |-> FALSE, threw |-> FALSE]

Null == "null"

\* lastSyncDataRef.current is NoSnapshot for null, or <<the snapshot>>.
NoSnapshot == <<>>

EmptySnapshot == [engineers |-> <<>>, projects |-> <<>>, assignments |-> <<>>]

\* initialState of the store, and no credential persisted.
StoreInit ==
    /\ currentUser = Null
    /\ token = Null
    /\ localStorage = Null
    /\ engineers = <<>>
    /\ projects = <<>>
    /\ assignments = <<>>

\* useApp() of the first render.
InitialApp ==
    [currentUser |-> Null, token |-> Null,
     engineers |-> <<>>, projects |-> <<>>, assignments |-> <<>>]

\* The providers after their first render and effects, nothing in flight.
ProvidersIdle ==
    /\ lastSyncDataRef = NoSnapshot
    /\ isAutoSyncEnabledRef = TRUE
    /\ isOnline = TRUE
    /\ visibilityState = "visible"
    /\ syncs = <<>>
    /\ syncTimers = {}
    /\ isSyncing = FALSE
    /\ realtimeIsOnline = TRUE
    /\ effectApp = InitialApp
    /\ writes = <<>>
    /\ loads = <<>>

\* The refs of BackgroundSyncProvider and of the hook as constructed, with
\* nothing stored on the remote authority.
EngineIdle ==
    /\ ProvidersIdle
    /\ server = EmptySnapshot

InitBus == BusInit /\ TrackerIdle /\ StoreInit /\ EngineIdle

NextBus ==
    \/ \E t \in EventTypes, f \in Listeners : Subscribe(t, f)
    \/ \E h \in 1..MaxCalls : Unsubscribe(h)
    \/ \E t \in EventTypes, thr \in SUBSET Listeners : Emit(t, thr)

SpecBus == InitBus /\ [][NextBus]_vars

(***************************************************************************)
(* Optimistic update tracker                                               *)
(***************************************************************************)

\* setTimeout(..., 10000) in addOptimisticUpdate.
TimeoutMs == 10000

UpdateIds == {"x", "y"}
\* The calls explored: each id with one semantic tag; every call passes a data
\* object of its own, named by the number of the call.
KindOf == [id \in UpdateIds |-> IF id = "x" THEN "engineer:add" ELSE "assignment:add"]
\* revertFn: not supplied, returns normally, or throws.
RevertFns == {"none", "returns", "throws"}

\* Number of addOptimisticUpdate calls explored.
MaxRegs == 2
\* The clock advances in steps of ClockStep up to MaxTime.
ClockStep == 5000
MaxTime == 10000
\* Number of times one compensating action is invoked before the model stops retrying.
MaxCompensate == 2

\* What lastOp records of a confirm or revert call that found no entry.
Miss == [op |-> "miss", id |-> "", reg |-> 0, hit |-> FALSE, threw |-> FALSE]

\* Map.set and Map.delete.
MapSet(m, k, v) == [j \in DOMAIN m \cup {k} |-> IF j = k THEN v ELSE m[j]]
MapDelete(m, k) == [j \in DOMAIN m \ {k} |-> m[j]]

\* The event emit constructs, without its timestamp (Date.now(), read by no
\* listener and by no step of the engine); by names the tracker registration (or
\* the sync invocation) whose code made the call, and is not part of the event.
Event(type, payload, source, by) ==
    [type |-> type, payload |-> payload, source |-> source, by |-> by]

\* The event log after emit(type, payload, source).
Emitted(evs, type, payload, source, by) ==
    IF enableBroadcast THEN Append(evs, Event(type, payload, source, by)) ELSE evs

\* The body of addOptimisticUpdate(id, type, data, revertFn); after holds the
\* events its caller emits next, before it gives up control.
addOptimisticUpdateThen(id, kind, data, revertFn, after) ==
    /\ Len(regs) < MaxRegs
    /\ LET r == Len(regs) + 1
           update == [id |-> id, type |-> kind, data |-> data, timestamp |-> now,
                      revert |-> revertFn, reg |-> r]
       IN /\ pendingUpdates' = MapSet(pendingUpdates, id, update)
          /\ events' = Emitted(events, "optimistic:" \o kind,
                               [id |-> id, data |-> data], "local", r) \o after
          /\ timers' = timers \cup {[id |-> id, reg |-> r, due |-> now + TimeoutMs]}
          /\ regs' = Append(regs, [id |-> id, type |-> kind, data |-> data,
                                   timestamp |-> now, revert |-> revertFn,
                                   before |-> DOMAIN pendingUpdates, compensated |-> 0,
                                   confirmed |-> "no"])
          /\ lastOp' = [op |-> "add", id |-> id, reg |-> r, hit |-> TRUE, threw |-> FALSE]

addOptimisticUpdate(id, kind, data, revertFn) ==
    addOptimisticUpdateThen(id, kind, data, revertFn, <<>>)

AddOptimisticUpdate(id, kind, data, revertFn) ==
    /\ addOptimisticUpdate(id, kind, data, revertFn)
    /\ UNCHANGED <<now, busVars, storeVars, localStorage, engineVars>>

\* Bookkeeping for regs: whether the confirm of registration r is the call made
\* right after the addOptimisticUpdate call that registered it.
HowConfirmed(r) ==
    IF lastOp.op = "add" /\ lastOp.reg = r THEN "immediately" ELSE "later"

\* The body of confirmOptimisticUpdate(id); after holds the events its caller
\* emits next, before it gives up control.
confirmOptimisticUpdateThen(id, after) ==
    IF id \in DOMAIN pendingUpdates
    THEN LET update == pendingUpdates[id] IN
         /\ pendingUpdates' = MapDelete(pendingUpdates, id)
         /\ events' = Emitted(events, "confirmed:" \o update.type,
                              [id |-> id, data |-> update.data], "server", update.reg)
                          \o after
         /\ regs' = [regs EXCEPT ![update.reg].confirmed = HowConfirmed(update.reg)]
         /\ lastOp' = [op |-> "confirm", id |-> id, reg |-> update.reg,
                       hit |-> TRUE, threw |-> FALSE]
    ELSE /\ UNCHANGED <<pendingUpdates, regs>>
         /\ events' = events \o after
         /\ lastOp' = Miss

confirmOptimisticUpdate(id) == confirmOptimisticUpdateThen(id, <<>>)

\* A bug: the confirmed entry stays in the map.
ConfirmKeepsEntry(id) ==
    /\ IF id \in DOMAIN pendingUpdates
       THEN LET update == pendingUpdates[id] IN
            /\ pendingUpdates' = pendingUpdates
            /\ events' = Emitted(events, "confirmed:" \o update.type,
                                 [id |-> id, data |-> update.data], "server", update.reg)
            /\ regs' = [regs EXCEPT ![update.reg].confirmed = HowConfirmed(update.reg)]
            /\ lastOp' = [op |-> "confirm", id |-> id, reg |-> update.reg,
                          hit |-> TRUE, threw |-> FALSE]
       ELSE /\ UNCHANGED <<pendingUpdates, events, regs>>
            /\ lastOp' = Miss
    /\ UNCHANGED <<timers, now, busVars, storeVars, localStorage, engineVars>>

ConfirmOptimisticUpdate(id) ==
    /\ confirmOptimisticUpdate(id)
    /\ UNCHANGED <<timers, now, busVars, storeVars, localStorage, engineVars>>

\* The body of revertOptimisticUpdate(id), called as op ("revert" by a caller,
\* "timeout" by the expiry timer). update.revert() runs before the delete and the
\* emit; when it throws, the exception leaves the function at that line.
\* after holds the events the caller emits next when the call returns.
revertOptimisticUpdateThen(id, op, after) ==
    IF id \in DOMAIN pendingUpdates
    THEN LET update == pendingUpdates[id] IN
         /\ update.revert # "none" => regs[update.reg].compensated < MaxCompensate
         /\ regs' = IF update.revert # "none"
                    THEN [regs EXCEPT ![update.reg].compensated = @ + 1]
                    ELSE regs
         /\ IF update.revert = "throws"
            THEN /\ UNCHANGED <<pendingUpdates, events>>
                 /\ lastOp' = [op |-> op, id |-> id, reg |-> update.reg,
                               hit |-> TRUE, threw |-> TRUE]
            ELSE /\ pendingUpdates' = MapDelete(pendingUpdates, id)
                 /\ events' = Emitted(events, "reverted:" \o update.type,
                                      [id |-> id, data |-> update.data], "local", update.reg)
                                  \o after
                 /\ lastOp' = [op |-> op, id |-> id, reg |-> update.reg,
                               hit |-> TRUE, threw |-> FALSE]
    ELSE /\ UNCHANGED <<pendingUpdates, regs>>
         /\ events' = events \o after
         /\ lastOp' = Miss

revertOptimisticUpdate(id, op) == revertOptimisticUpdateThen(id, op, <<>>)

RevertOptimisticUpdate(id) ==
    /\ revertOptimisticUpdate(id, "revert")
    /\ UNCHANGED <<timers, now, busVars, storeVars, localStorage, engineVars>>

\* The setTimeout callback of the registration t.reg runs, at or after its due time.
ExpiryTimerFires(t) ==
    /\ t \in timers
    /\ now >= t.due
    /\ timers' = timers \ {t}
    /\ IF t.id \in DOMAIN pendingUpdates
       THEN revertOptimisticUpdate(t.id, "timeout")
       ELSE /\ UNCHANGED <<pendingUpdates, events, regs>>
            /\ lastOp' = [op |-> "timeout", id |-> t.id, reg |-> 0,
                          hit |-> FALSE, threw |-> FALSE]
    /\ UNCHANGED <<now, busVars, storeVars, localStorage, engineVars>>

\* Time passes once every timer that is due has run.
ClockAdvances ==
    /\ now < MaxTime
    /\ \A t \in timers : t.due > now
    /\ \A t \in syncTimers : t.due > now
    /\ now' = now + ClockStep
    /\ UNCHANGED <<pendingUpdates, timers, events, regs, lastOp, busVars, storeVars, localStorage, engineVars>>

InitTracker == BusInit /\ TrackerIdle /\ StoreInit /\ EngineIdle

NextTracker ==
    \/ \E id \in UpdateIds, f \in RevertFns :
          AddOptimisticUpdate(id, KindOf[id], Len(regs) + 1, f)
    \/ \E id \in UpdateIds : ConfirmOptimisticUpdate(id)
    \/ \E id \in UpdateIds : RevertOptimisticUpdate(id)
    \/ \E t \in timers : ExpiryTimerFires(t)
    \/ ClockAdvances

SpecTracker == InitTracker /\ [][NextTracker]_vars

(***************************************************************************)
(* Reconciliation engine                                                   *)
(***************************************************************************)

\* A record as the parsed JSON object: its key/value pairs in key order.
Rec(id, name) == << <<"id", id>>, <<"name", name>> >>
RecNameFirst(id, name) == << <<"name", name>>, <<"id", id>> >>

\* rec[key]
Get(rec, key) == rec[CHOOSE i \in 1..Len(rec) : rec[i][1] = key][2]

\* JSON.stringify(rec): the members "key":"value" in the record's key order,
\* separated by commas, inside braces.
RECURSIVE Members(_)

\* A reference of an assignment: the bare id (a string) or the populated object.
BareId(id) == <<"string", id>>
Populated(id, name) == <<"object", << <<"_id", id>>, <<"name", name>> >> >>

\* The JSON text of the value of key: a number for allocationPercentage, a
\* string or an object for engineerId, a string for every other key.
Value(key, v) ==
    CASE key = "allocationPercentage" -> ToString(v)
      [] key = "engineerId" ->
            IF v[1] = "string" THEN "\"" \o v[2] \o "\"" ELSE "{" \o Members(v[2]) \o "}"
      [] OTHER -> "\"" \o v \o "\""

Members(rec) ==
    IF rec = <<>> THEN ""
    ELSE "\"" \o rec[1][1] \o "\":" \o Value(rec[1][1], rec[1][2])
            \o (IF Len(rec) = 1 THEN "" ELSE "," \o Members(Tail(rec)))

JSONstringify(rec) == "{" \o Members(rec) \o "}"

\* The content of a record: what deep equality compares.
Content(rec) == Range(rec)

\* coll.find(r => r.id === id): <<the first record with the id>>, or <<>> for
\* undefined.
Find(coll, id) ==
    LET found == SelectSeq(coll, LAMBDA r : Get(r, "id") = id) IN
    IF found = <<>> THEN <<>> ELSE <<Head(found)>>

\* A bug: the filter keeps every record, found in the other collection or not.
NewItemsAll(newColl, oldColl) == newColl

\* newColl.filter(e => !oldColl.find(old => old.id === e.id))
NewItems(newColl, oldColl) ==
    SelectSeq(newColl, LAMBDA e : Find(oldColl, Get(e, "id")) = <<>>)

\* A bug: records are compared by content, whatever the order of their keys.
UpdatedItemsByContent(newColl, oldColl) ==
    SelectSeq(newColl, LAMBDA e :
        LET old == Find(oldColl, Get(e, "id")) IN
        old # <<>> /\ Content(old[1]) # Content(e))

\* newColl.filter(e => { const old = oldColl.find(...);
\*                       return old && JSON.stringify(old) !== JSON.stringify(e) })
UpdatedItems(newColl, oldColl) ==
    SelectSeq(newColl, LAMBDA e :
        LET old == Find(oldColl, Get(e, "id")) IN
        old # <<>> /\ JSONstringify(old[1]) # JSONstringify(e))

\* items.forEach(item => realtime.emit(type, item, 'server'))
EmitEach(items, type, by) ==
    [i \in 1..Len(items) |-> Event(type, items[i], "server", by)]

\* checkForChanges(newData, oldData): the events it emits, in order; oldRef is
\* lastSyncDataRef.current, <<>> for null.
checkForChanges(newData, oldRef, by) ==
    IF oldRef = NoSnapshot THEN <<>>
    ELSE
    LET oldData == oldRef[1]
        newEngineers == NewItems(newData.engineers, oldData.engineers)
        newProjects == NewItems(newData.projects, oldData.projects)
        newAssignments == NewItems(newData.assignments, oldData.assignments)
        removedEngineers == NewItems(oldData.engineers, newData.engineers)
        removedProjects == NewItems(oldData.projects, newData.projects)
        removedAssignments == NewItems(oldData.assignments, newData.assignments)
        updatedEngineers == UpdatedItems(newData.engineers, oldData.engineers)
        updatedProjects == UpdatedItems(newData.projects, oldData.projects)
        updatedAssignments == UpdatedItems(newData.assignments, oldData.assignments)
        perRecord ==
            EmitEach(newEngineers, "external:engineer:added", by)
            \o EmitEach(newProjects, "external:project:added", by)
            \o EmitEach(newAssignments, "external:assignment:added", by)
            \o EmitEach(removedEngineers, "external:engineer:removed", by)
            \o EmitEach(removedProjects, "external:project:removed", by)
            \o EmitEach(removedAssignments, "external:assignment:removed", by)
            \o EmitEach(updatedEngineers, "external:engineer:updated", by)
            \o EmitEach(updatedProjects, "external:project:updated", by)
            \o EmitEach(updatedAssignments, "external:assignment:updated", by)
    IN  IF Len(perRecord) > 0
        THEN Append(perRecord,
                 Event("external:changes-detected",
                       [added |-> [engineers |-> Len(newEngineers),
                                   projects |-> Len(newProjects),
                                   assignments |-> Len(newAssignments)],
                        removed |-> [engineers |-> Len(removedEngineers),
                                     projects |-> Len(removedProjects),
                                     assignments |-> Len(removedAssignments)],
                        updated |-> [engineers |-> Len(updatedEngineers),
                                     projects |-> Len(updatedProjects),
                                     assignments |-> Len(updatedAssignments)]],
                       "server", by))
        ELSE perRecord

\* The snapshots the diff is applied to: up to two engineers with either name
\* and either key order, in either array order, and at most one project and one
\* assignment; ids are unique within a collection, as the remote authority's are.
EngineerRecords ==
    {Rec(id, n) : id \in {"e1", "e2"}, n \in {"a", "b"}}
        \cup {RecNameFirst(id, n) : id \in {"e1", "e2"}, n \in {"a", "b"}}

EngineerCollections ==
    {<<>>} \cup {<<r>> : r \in EngineerRecords}
        \cup {<<p[1], p[2]>> : p \in {p \in EngineerRecords \X EngineerRecords :
                                          Get(p[1], "id") # Get(p[2], "id")}}

ProjectCollections == {<<>>, <<Rec("p1", "a")>>, <<Rec("p1", "b")>>}
AssignmentCollections == {<<>>, <<Rec("a1", "a")>>, <<RecNameFirst("a1", "a")>>}

DiffSnapshots ==
    [engineers : EngineerCollections, projects : ProjectCollections,
     assignments : AssignmentCollections]

\* The diff step of performSync on its own: lastSyncDataRef holds the previous
\* snapshot and server the newly fetched one.
InitDiff ==
    /\ BusInit /\ TrackerIdle /\ StoreInit
    /\ lastSyncDataRef \in {<<d>> : d \in DiffSnapshots}
    /\ server \in DiffSnapshots
    /\ isAutoSyncEnabledRef = TRUE
    /\ isOnline = TRUE
    /\ visibilityState = "visible"
    /\ syncs = <<>>
    /\ syncTimers = {}
    /\ isSyncing = FALSE
    /\ realtimeIsOnline = TRUE
    /\ effectApp = InitialApp
    /\ writes = <<>>
    /\ loads = <<>>

CheckForChanges ==
    /\ lastOp.op = "none"
    /\ events' = events \o checkForChanges(server, lastSyncDataRef, 0)
    /\ lastOp' = [op |-> "diff", id |-> "", reg |-> 0, hit |-> TRUE, threw |-> FALSE]
    /\ UNCHANGED <<pendingUpdates, timers, now, regs, busVars, storeVars, localStorage, engineVars>>

NextDiff == CheckForChanges

SpecDiff == InitDiff /\ [][NextDiff]_vars

(***************************************************************************)
(* Session, background sync engine and remote authority                    *)
(***************************************************************************)

IntervalMs == 30000
OnlineDelayMs == 2000

\* The delay of the sync scheduled when the application regains focus.
FocusDelayMs == 1000

\* Number of performSync invocations that pass the session check.
MaxSyncs == 2
\* Number of login calls.
MaxLogins == 1
\* Number of online / offline events of the window.
MaxNetworkEvents == 2
MaxFocusEvents == 2
MaxToggles == 2
\* The clock stops here.
MaxSyncTime == 30000

\* The states the remote authority goes through as other users change it.
ServerVersions ==
    << [engineers |-> <<Rec("e1", "a")>>, projects |-> <<>>, assignments |-> <<>>],
       [engineers |-> <<RecNameFirst("e1", "a"), Rec("e2", "b")>>,
        projects |-> <<Rec("p1", "a")>>, assignments |-> <<>>] >>

\* What a failed fetchServerData throws: its own Error for a response that is
\* not ok, or the TypeError of a fetch the network rejected.
FetchErrors ==
    {[isError |-> TRUE, message |-> "Failed to fetch server data"],
     [isError |-> TRUE, message |-> "Failed to fetch"]}

\* error instanceof Error ? error.message : 'Unknown sync error'
ErrorMessage(error) == IF error.isError THEN error.message ELSE "Unknown sync error"

\* useApp() of the current render.
App ==
    [currentUser |-> currentUser, token |-> token,
     engineers |-> engineers, projects |-> projects, assignments |-> assignments]

\* The listeners RealtimeProvider subscribes to sync:start, sync:complete and
\* sync:error call setIsSyncing(v). A change of isSyncing re-renders
\* RealtimeProvider, whose new context value reads isOnline.current; the
\* engine's effects that depend on [realtime] run again and close over app, the
\* store as it is after the handler that emitted the event.
setIsSyncing(v, app) ==
    /\ isSyncing' = v
    /\ IF isSyncing # v
       THEN /\ realtimeIsOnline' = isOnline
            /\ effectApp' = app
       ELSE UNCHANGED <<realtimeIsOnline, effectApp>>

\* performSync() of a render whose useApp() was app, up to its await: the
\* session check, sync:start, and the fetch it starts. rendered is the store
\* after the handler that made the call.
performSync(trigger, app, rendered) ==
    IF app.currentUser = Null \/ app.token = Null
    THEN UNCHANGED <<syncs, events, isSyncing, realtimeIsOnline, effectApp>>
    ELSE /\ Len(syncs) < MaxSyncs
         /\ syncs' = Append(syncs,
                [trigger |-> trigger, pc |-> "fetching", fetched |-> <<>>,
                 promise |-> "pending",
                 online |-> isOnline,
                 currentData |-> [engineers |-> app.engineers,
                                  projects |-> app.projects,
                                  assignments |-> app.assignments]])
         /\ events' = Emitted(events, "sync:start", <<>>, "local", -(Len(syncs) + 1))
         /\ setIsSyncing(TRUE, rendered)

\* startAutoSync() of a render whose useApp() was app: the interval replaces
\* the one running; its callback closes over that render's realtime and app.
startAutoSync(app) ==
    syncTimers' = {t \in syncTimers : t.kind # "interval"}
                      \cup {[kind |-> "interval", due |-> now + IntervalMs, at |-> 0,
                             online |-> realtimeIsOnline, app |-> app]}

stopAutoSync == syncTimers' = {t \in syncTimers : t.kind # "interval"}

\* login(), its request answered with a token and a user: LOGIN is dispatched
\* and fetchAllData(token) called; the login effect of the next render calls
\* performSync() and startAutoSync().
Login ==
    /\ currentUser = Null
    /\ isOnline
    /\ Len(loads) < MaxLogins
    /\ currentUser' = "u1"
    /\ token' = "t1"
    /\ localStorage' = "t1"
    /\ UNCHANGED writes
    /\ loads' = Append(loads, [pc |-> "fetching", fetched |-> <<>>])
    /\ LET app == [App EXCEPT !.currentUser = "u1", !.token = "t1"] IN
       /\ performSync("login", app, app)
       /\ startAutoSync(app)
    /\ UNCHANGED <<engineers, projects, assignments, lastSyncDataRef,
                   isAutoSyncEnabledRef, isOnline, visibilityState, server, trackerVarsButEvents, busVars>>

\* The effect of a render without a session: stopAutoSync() and
\* lastSyncDataRef.current = null.
SessionEnded ==
    /\ stopAutoSync
    /\ lastSyncDataRef' = NoSnapshot

\* logout(): LOGOUT is dispatched and the login effect runs.
Logout ==
    /\ currentUser # Null
    /\ localStorage' = Null
    /\ currentUser' = Null
    /\ token' = Null
    /\ SessionEnded
    /\ UNCHANGED <<engineers, projects, assignments, isAutoSyncEnabledRef, isOnline, visibilityState,
                   syncs, server, isSyncing, realtimeIsOnline, effectApp, loads, writes,
                   trackerVars, busVars>>

\* The remote authority answers the three requests of fetchAllData call l.
FetchAllDataResponds(l) ==
    /\ l \in DOMAIN loads
    /\ loads[l].pc = "fetching"
    /\ isOnline
    /\ UNCHANGED writes
    /\ loads' = [loads EXCEPT ![l].pc = "responded", ![l].fetched = <<server>>]
    /\ UNCHANGED <<lastSyncDataRef, isAutoSyncEnabledRef, isOnline, visibilityState, syncs, syncTimers,
                   server, isSyncing, realtimeIsOnline, effectApp,
                   storeVars, localStorage, trackerVars, busVars>>

\* fetchAllData call l resumes with the responses and dispatches SET_ENGINEERS,
\* SET_PROJECTS and SET_ASSIGNMENTS.
FetchAllDataResumes(l) ==
    /\ l \in DOMAIN loads
    /\ loads[l].pc = "responded"
    /\ engineers' = loads[l].fetched[1].engineers
    /\ projects' = loads[l].fetched[1].projects
    /\ assignments' = loads[l].fetched[1].assignments
    /\ UNCHANGED writes
    /\ loads' = [loads EXCEPT ![l].pc = "done"]
    /\ UNCHANGED <<currentUser, token, localStorage, lastSyncDataRef, isAutoSyncEnabledRef, isOnline, visibilityState,
                   syncs, syncTimers, server, isSyncing, realtimeIsOnline, effectApp,
                   trackerVars, busVars>>

\* fetchAllData call l fails; an AuthenticationError dispatches LOGOUT, and the
\* login effect runs when that changes the session.
FetchAllDataFails(l, authenticationError) ==
    /\ l \in DOMAIN loads
    /\ loads[l].pc = "fetching"
    /\ UNCHANGED writes
    /\ loads' = [loads EXCEPT ![l].pc = "failed"]
    /\ localStorage' = IF authenticationError THEN Null ELSE localStorage
    /\ IF authenticationError /\ currentUser # Null
       THEN /\ currentUser' = Null
            /\ token' = Null
            /\ SessionEnded
       ELSE UNCHANGED <<currentUser, token, syncTimers, lastSyncDataRef>>
    /\ UNCHANGED <<engineers, projects, assignments, isAutoSyncEnabledRef, isOnline, visibilityState,
                   syncs, server, isSyncing, realtimeIsOnline, effectApp,
                   trackerVars, busVars>>

\* forceSync(), taken from the context value of the current render.
ForceSync ==
    /\ performSync("forceSync", App, App)
    /\ UNCHANGED <<lastSyncDataRef, isAutoSyncEnabledRef, isOnline, visibilityState, syncTimers, server,
                   loads, writes, storeVars, localStorage, trackerVarsButEvents, busVars>>

\* The remote authority answers the three requests of performSync invocation s.
FetchServerDataResponds(s) ==
    /\ s \in DOMAIN syncs
    /\ syncs[s].pc = "fetching"
    /\ isOnline
    /\ syncs' = [syncs EXCEPT ![s].pc = "responded", ![s].fetched = <<server>>]
    /\ UNCHANGED <<lastSyncDataRef, isAutoSyncEnabledRef, isOnline, visibilityState, syncTimers, server,
                   isSyncing, realtimeIsOnline, effectApp, loads, writes,
                   storeVars, localStorage, trackerVars, busVars>>

\* resolveConflicts(serverData, localData): the event it emits.
resolveConflicts(serverData, localData, by) ==
    <<Event("sync:conflict-resolved",
            [strategy |-> "server-wins", serverData |-> serverData,
             localData |-> localData], "local", by)>>

\* A bug: sync:complete is announced before the diff is reported.
PerformSyncCompletesFirst(s) ==
    /\ s \in DOMAIN syncs
    /\ syncs[s].pc = "responded"
    /\ LET serverData == syncs[s].fetched[1]
           external == checkForChanges(serverData, lastSyncDataRef, -s)
           conflict == IF DOMAIN pendingUpdates # {}
                       THEN resolveConflicts(serverData, syncs[s].currentData, -s)
                       ELSE <<>>
       IN /\ engineers' = serverData.engineers
          /\ projects' = serverData.projects
          /\ assignments' = serverData.assignments
          /\ lastSyncDataRef' = <<serverData>>
          /\ events' = Emitted(events, "sync:complete", [data |-> serverData],
                               "server", -s) \o external \o conflict
          /\ setIsSyncing(FALSE, [App EXCEPT !.engineers = serverData.engineers,
                                             !.projects = serverData.projects,
                                             !.assignments = serverData.assignments])
    /\ syncs' = [syncs EXCEPT ![s].pc = "done", ![s].promise = "fulfilled"]
    /\ UNCHANGED <<currentUser, token, localStorage, isAutoSyncEnabledRef, isOnline, visibilityState, syncTimers,
                   server, loads, writes, trackerVarsButEvents, busVars>>

\* A bug: the store as performSync read it is committed, not the fetched data.
PerformSyncKeepsLocal(s) ==
    /\ s \in DOMAIN syncs
    /\ syncs[s].pc = "responded"
    /\ LET serverData == syncs[s].fetched[1]
           localData == syncs[s].currentData
           external == checkForChanges(serverData, lastSyncDataRef, -s)
       IN /\ engineers' = localData.engineers
          /\ projects' = localData.projects
          /\ assignments' = localData.assignments
          /\ lastSyncDataRef' = <<serverData>>
          /\ events' = Emitted(events \o external, "sync:complete",
                               [data |-> serverData], "server", -s)
          /\ setIsSyncing(FALSE, [App EXCEPT !.engineers = localData.engineers,
                                             !.projects = localData.projects,
                                             !.assignments = localData.assignments])
    /\ syncs' = [syncs EXCEPT ![s].pc = "done", ![s].promise = "fulfilled"]
    /\ UNCHANGED <<currentUser, token, localStorage, isAutoSyncEnabledRef, isOnline, visibilityState, syncTimers,
                   server, loads, writes, trackerVarsButEvents, busVars>>

\* performSync invocation s resumes after its await with the fetched data: the
\* diff, the conflict check, the commit, the last-known snapshot, sync:complete.
PerformSyncResumes(s) ==
    /\ s \in DOMAIN syncs
    /\ syncs[s].pc = "responded"
    /\ LET serverData == syncs[s].fetched[1]
           external == checkForChanges(serverData, lastSyncDataRef, -s)
           conflict == IF DOMAIN pendingUpdates # {}
                       THEN resolveConflicts(serverData, syncs[s].currentData, -s)
                       ELSE <<>>
       IN /\ engineers' = serverData.engineers
          /\ projects' = serverData.projects
          /\ assignments' = serverData.assignments
          /\ lastSyncDataRef' = <<serverData>>
          /\ events' = Emitted(events \o external \o conflict, "sync:complete",
                               [data |-> serverData], "server", -s)
          /\ setIsSyncing(FALSE, [App EXCEPT !.engineers = serverData.engineers,
                                             !.projects = serverData.projects,
                                             !.assignments = serverData.assignments])
    /\ syncs' = [syncs EXCEPT ![s].pc = "done", ![s].promise = "fulfilled"]
    /\ UNCHANGED <<currentUser, token, localStorage, isAutoSyncEnabledRef, isOnline, visibilityState, syncTimers,
                   server, loads, writes, trackerVarsButEvents, busVars>>

\* A bug: the failure handler forgets the last-known snapshot.
FetchFailsForgetsSnapshot(s, error) ==
    /\ s \in DOMAIN syncs
    /\ syncs[s].pc = "fetching"
    /\ syncs' = [syncs EXCEPT ![s].pc = "failed", ![s].promise = "fulfilled"]
    /\ events' = Emitted(events, "sync:error", [error |-> ErrorMessage(error)],
                         "local", -s)
    /\ setIsSyncing(FALSE, App)
    /\ lastSyncDataRef' = NoSnapshot
    /\ UNCHANGED <<isAutoSyncEnabledRef, isOnline, visibilityState, syncTimers, server,
                   loads, writes, storeVars, localStorage, trackerVarsButEvents, busVars>>

\* The fetch of performSync invocation s fails with error: the catch block
\* emits sync:error and returns, which fulfils the promise of performSync.
FetchFails(s, error) ==
    /\ s \in DOMAIN syncs
    /\ syncs[s].pc = "fetching"
    /\ syncs' = [syncs EXCEPT ![s].pc = "failed", ![s].promise = "fulfilled"]
    /\ events' = Emitted(events, "sync:error", [error |-> ErrorMessage(error)],
                         "local", -s)
    /\ setIsSyncing(FALSE, App)
    /\ UNCHANGED <<lastSyncDataRef, isAutoSyncEnabledRef, isOnline, visibilityState, syncTimers, server,
                   loads, writes, storeVars, localStorage, trackerVarsButEvents, busVars>>

NetworkEvents ==
    Cardinality({i \in 1..Len(events) :
                    events[i].type \in {"network:online", "network:offline"}})

\* The window's offline event: handleOffline of the hook.
GoOffline ==
    /\ isOnline
    /\ NetworkEvents < MaxNetworkEvents
    /\ isOnline' = FALSE
    /\ events' = Emitted(events, "network:offline", <<>>, "local", 0)
    /\ UNCHANGED <<lastSyncDataRef, isAutoSyncEnabledRef, visibilityState, syncs, syncTimers, server,
                   isSyncing, realtimeIsOnline, effectApp, loads, writes,
                   storeVars, localStorage, trackerVarsButEvents, busVars>>

\* The window's online event: handleOnline of the hook emits network:online,
\* and the engine's listener schedules performSync of the render it closed over.
GoOnline ==
    /\ ~isOnline
    /\ NetworkEvents < MaxNetworkEvents
    /\ isOnline' = TRUE
    /\ events' = Emitted(events, "network:online", <<>>, "local", 0)
    /\ syncTimers' = IF isAutoSyncEnabledRef
                     THEN syncTimers \cup {[kind |-> "online", due |-> now + OnlineDelayMs,
                                            at |-> Len(events) + 1,
                                            online |-> realtimeIsOnline, app |-> effectApp]}
                     ELSE syncTimers
    /\ UNCHANGED <<lastSyncDataRef, isAutoSyncEnabledRef, visibilityState, syncs, server,
                   isSyncing, realtimeIsOnline, effectApp, loads, writes,
                   storeVars, localStorage, trackerVarsButEvents, busVars>>

\* The timeout scheduled by the engine's network:online listener runs.
OnlineTimerFires(t) ==
    /\ t \in syncTimers
    /\ t.kind = "online"
    /\ now >= t.due
    /\ syncTimers' = syncTimers \ {t}
    /\ performSync("online", t.app, App)
    /\ UNCHANGED <<lastSyncDataRef, isAutoSyncEnabledRef, isOnline, visibilityState, server,
                   loads, writes, storeVars, localStorage, trackerVarsButEvents, busVars>>

\* The interval callback runs, and the interval stays armed.
IntervalTick(t) ==
    /\ t \in syncTimers
    /\ t.kind = "interval"
    /\ now >= t.due
    /\ syncTimers' = (syncTimers \ {t}) \cup {[t EXCEPT !.due = t.due + IntervalMs]}
    /\ IF isAutoSyncEnabledRef /\ t.online /\ visibilityState = "visible"
       THEN performSync("interval", t.app, App)
       ELSE UNCHANGED <<syncs, events, isSyncing, realtimeIsOnline, effectApp>>
    /\ UNCHANGED <<lastSyncDataRef, isAutoSyncEnabledRef, isOnline, visibilityState, server,
                   loads, writes, storeVars, localStorage, trackerVarsButEvents, busVars>>

FocusEvents ==
    Cardinality({i \in 1..Len(events) : events[i].type \in {"app:focus", "app:blur"}})

\* The document is hidden: handleVisibilityChange of the hook emits app:blur.
Blur ==
    /\ visibilityState = "visible"
    /\ FocusEvents < MaxFocusEvents
    /\ visibilityState' = "hidden"
    /\ events' = Emitted(events, "app:blur", <<>>, "local", 0)
    /\ UNCHANGED <<lastSyncDataRef, isAutoSyncEnabledRef, isOnline, syncs, syncTimers,
                   server, isSyncing, realtimeIsOnline, effectApp, loads, writes,
                   storeVars, localStorage, trackerVarsButEvents, busVars>>

\* The document is visible again: handleVisibilityChange emits app:focus, and
\* the engine's listener schedules performSync of the render it closed over.
Focus ==
    /\ visibilityState = "hidden"
    /\ FocusEvents < MaxFocusEvents
    /\ visibilityState' = "visible"
    /\ events' = Emitted(events, "app:focus", <<>>, "local", 0)
    /\ syncTimers' = IF isAutoSyncEnabledRef
                     THEN syncTimers \cup {[kind |-> "focus", due |-> now + FocusDelayMs,
                                            at |-> Len(events) + 1,
                                            online |-> realtimeIsOnline, app |-> effectApp]}
                     ELSE syncTimers
    /\ UNCHANGED <<lastSyncDataRef, isAutoSyncEnabledRef, isOnline, syncs, server,
                   isSyncing, realtimeIsOnline, effectApp, loads, writes,
                   storeVars, localStorage, trackerVarsButEvents, busVars>>

\* The timeout scheduled by the engine's app:focus listener runs.
FocusTimerFires(t) ==
    /\ t \in syncTimers
    /\ t.kind = "focus"
    /\ now >= t.due
    /\ syncTimers' = syncTimers \ {t}
    /\ performSync("focus", t.app, App)
    /\ UNCHANGED <<lastSyncDataRef, isAutoSyncEnabledRef, isOnline, visibilityState,
                   server, loads, writes, storeVars, localStorage, trackerVarsButEvents, busVars>>

Toggles ==
    Cardinality({i \in 1..Len(events) : events[i].type = "sync:auto-sync-toggled"})

\* toggleAutoSync(enabled), taken from the context value of the current render.
ToggleAutoSync(enabled) ==
    /\ Toggles < MaxToggles
    /\ isAutoSyncEnabledRef' = enabled
    /\ IF enabled THEN startAutoSync(App) ELSE stopAutoSync
    /\ events' = Emitted(events, "sync:auto-sync-toggled", [enabled |-> enabled],
                         "local", 0)
    /\ UNCHANGED <<lastSyncDataRef, isOnline, visibilityState, syncs, server,
                   isSyncing, realtimeIsOnline, effectApp, loads, writes,
                   storeVars, localStorage, trackerVarsButEvents, busVars>>

\* Time passes until the next timer is due, once every timer that is due has run.
TimePasses ==
    /\ timers \cup syncTimers # {}
    /\ \A t \in timers : t.due > now
    /\ \A t \in syncTimers : t.due > now
    /\ \E d \in {t.due : t \in timers} \cup {t.due : t \in syncTimers} :
          /\ d <= MaxSyncTime
          /\ \A t \in timers : d <= t.due
          /\ \A t \in syncTimers : d <= t.due
          /\ now' = d
    /\ UNCHANGED <<pendingUpdates, timers, events, regs, lastOp,
                   busVars, storeVars, localStorage, engineVars>>

\* Another user changes the remote authority.
RemoteChanges ==
    /\ \E v \in 1..(Len(ServerVersions) - 1) :
          /\ server = ServerVersions[v]
          /\ server' = ServerVersions[v + 1]
    /\ UNCHANGED <<lastSyncDataRef, isAutoSyncEnabledRef, isOnline, visibilityState, syncs, syncTimers,
                   isSyncing, realtimeIsOnline, effectApp, loads, writes,
                   storeVars, localStorage, trackerVars, busVars>>

InitSync ==
    /\ BusInit /\ TrackerIdle /\ StoreInit /\ ProvidersIdle
    /\ server = ServerVersions[1]

\* The one mutation tracked here is made before the first sync starts.
NextSync ==
    \/ Login
    \/ Logout
    \/ \E l \in 1..MaxLogins : FetchAllDataResponds(l)
    \/ \E l \in 1..MaxLogins : FetchAllDataResumes(l)
    \/ \E l \in 1..MaxLogins, authenticationError \in BOOLEAN :
          FetchAllDataFails(l, authenticationError)
    \/ ForceSync
    \/ \E s \in 1..MaxSyncs : FetchServerDataResponds(s)
    \/ \E s \in 1..MaxSyncs : PerformSyncResumes(s)
    \/ \E s \in 1..MaxSyncs, error \in FetchErrors : FetchFails(s, error)
    \/ GoOffline
    \/ GoOnline
    \/ \E t \in syncTimers : OnlineTimerFires(t)
    \/ \E t \in syncTimers : IntervalTick(t)
    \/ TimePasses
    \/ RemoteChanges
    \/ (syncs = <<>> /\ regs = <<>> /\ AddOptimisticUpdate("x", KindOf["x"], 1, "returns"))
    \/ \E t \in timers : ExpiryTimerFires(t)

SpecSync == InitSync /\ [][NextSync]_vars

\* The engine's triggers on their own: a session whose login sync and
\* fetchAllData have completed, the interval armed by the login effect.
LoginApp == [InitialApp EXCEPT !.currentUser = "u1", !.token = "t1"]

InitTriggers ==
    /\ BusInit
    /\ pendingUpdates = <<>> /\ timers = {} /\ now = 0 /\ regs = <<>>
    /\ lastOp = [op |-> "none", id |-> "", reg |-> 0, hit |-> FALSE, threw |-> FALSE]
    /\ currentUser = "u1" /\ token = "t1" /\ localStorage = "t1"
    /\ server = ServerVersions[1]
    /\ engineers = server.engineers
    /\ projects = server.projects
    /\ assignments = server.assignments
    /\ lastSyncDataRef = <<server>>
    /\ syncs = << [trigger |-> "login", pc |-> "done", fetched |-> <<server>>,
                   promise |-> "fulfilled",
                   online |-> TRUE, currentData |-> EmptySnapshot] >>
    /\ events = << Event("sync:start", <<>>, "local", -1),
                   Event("sync:complete", [data |-> server], "server", -1) >>
    /\ isAutoSyncEnabledRef = TRUE
    /\ isOnline = TRUE
    /\ visibilityState = "visible"
    /\ isSyncing = FALSE
    /\ realtimeIsOnline = TRUE
    /\ effectApp = App
    /\ syncTimers = {[kind |-> "interval", due |-> IntervalMs, at |-> 0,
                      online |-> TRUE, app |-> LoginApp]}
    /\ writes = <<>>
    /\ loads = << [pc |-> "done", fetched |-> <<server>>] >>

NextTriggers ==
    \/ GoOffline
    \/ GoOnline
    \/ Blur
    \/ Focus
    \/ \E enabled \in BOOLEAN : ToggleAutoSync(enabled)
    \/ \E t \in syncTimers : OnlineTimerFires(t)
    \/ \E t \in syncTimers : FocusTimerFires(t)
    \/ \E t \in syncTimers : IntervalTick(t)
    \/ TimePasses
    \/ ForceSync
    \/ \E s \in 1..MaxSyncs : FetchServerDataResponds(s)
    \/ \E s \in 1..MaxSyncs : PerformSyncResumes(s)
    \/ \E s \in 1..MaxSyncs, error \in FetchErrors : FetchFails(s, error)

SpecTriggers == InitTriggers /\ [][NextTriggers]_vars

(***************************************************************************)
(* One performSync resuming after its await, on pairs of snapshots         *)
(***************************************************************************)

\* A session whose store and last-known snapshot hold the snapshot an earlier
\* sync committed, with one performSync invocation whose fetch has been
\* answered with the remote authority's collections.
InitResume ==
    /\ BusInit
    /\ pendingUpdates = <<>> /\ timers = {} /\ now = 0 /\ regs = <<>>
    /\ lastOp = [op |-> "none", id |-> "", reg |-> 0, hit |-> FALSE, threw |-> FALSE]
    /\ currentUser = "u1" /\ token = "t1" /\ localStorage = "t1"
    /\ lastSyncDataRef \in {<<d>> : d \in DiffSnapshots}
    /\ engineers = lastSyncDataRef[1].engineers
    /\ projects = lastSyncDataRef[1].projects
    /\ assignments = lastSyncDataRef[1].assignments
    /\ server \in DiffSnapshots
    /\ syncs = << [trigger |-> "forceSync", pc |-> "responded", fetched |-> <<server>>,
                   promise |-> "pending",
                   online |-> TRUE, currentData |-> lastSyncDataRef[1]] >>
    /\ events = << Event("sync:start", <<>>, "local", -1) >>
    /\ isAutoSyncEnabledRef = TRUE
    /\ isOnline = TRUE
    /\ visibilityState = "visible"
    /\ isSyncing = TRUE
    /\ realtimeIsOnline = TRUE
    /\ effectApp = App
    /\ syncTimers = {[kind |-> "interval", due |-> IntervalMs, at |-> 0,
                      online |-> TRUE, app |-> App]}
    /\ writes = <<>>
    /\ loads = <<>>

NextResume == PerformSyncResumes(1)

SpecResume == InitResume /\ [][NextResume]_vars

(***************************************************************************)
(* AppProvider: the store's reducer and its optimistic write flows         *)
(***************************************************************************)

providerVars == <<lastSyncDataRef, isAutoSyncEnabledRef, isOnline, visibilityState, syncs,
                  syncTimers, isSyncing, realtimeIsOnline, effectApp, loads>>

Has(rec, key) == \E i \in 1..Len(rec) : rec[i][1] = key

\* {...a, ...b}: the keys of a in their order, then the keys only b has; a
\* key of both takes the value of b.
Spread(a, b) ==
    [i \in 1..Len(a) |-> IF Has(b, a[i][1]) THEN <<a[i][1], Get(b, a[i][1])>> ELSE a[i]]
        \o SelectSeq(b, LAMBDA p : ~Has(a, p[1]))

\* An assignment as the remote authority sends it. Of the fields of Assignment
\* the flows and the workload read id, engineerId and allocationPercentage.
Assignment(id, engineerId, allocationPercentage) ==
    << <<"id", id>>, <<"engineerId", engineerId>>,
       <<"allocationPercentage", allocationPercentage>> >>

\* coll.map(r => r.id === id ? { ...r, ...patch } : r)
Patched(coll, id, patch) ==
    [i \in 1..Len(coll) |->
        IF Get(coll[i], "id") = id THEN Spread(coll[i], patch) ELSE coll[i]]

\* coll.filter(r => r.id !== id)
Without(coll, id) == SelectSeq(coll, LAMBDA r : Get(r, "id") # id)

Action(type, payload) == [type |-> type, payload |-> payload]

appReducer(state, action) ==
    CASE action.type = "SET_ENGINEERS" -> [state EXCEPT !.engineers = action.payload]
      [] action.type = "SET_PROJECTS" -> [state EXCEPT !.projects = action.payload]
      [] action.type = "SET_ASSIGNMENTS" -> [state EXCEPT !.assignments = action.payload]
      [] action.type = "ADD_ENGINEER" ->
            [state EXCEPT !.engineers = Append(@, action.payload)]
      [] action.type = "UPDATE_ENGINEER" ->
            [state EXCEPT !.engineers =
                Patched(@, action.payload.id, action.payload.engineer)]
      [] action.type = "ADD_PROJECT" ->
            [state EXCEPT !.projects = Append(@, action.payload)]
      [] action.type = "UPDATE_PROJECT" ->
            [state EXCEPT !.projects =
                Patched(@, action.payload.id, action.payload.project)]
      [] action.type = "ADD_ASSIGNMENT" ->
            [state EXCEPT !.assignments = Append(@, action.payload)]
      [] action.type = "REMOVE_ASSIGNMENT" ->
            [state EXCEPT !.assignments = Without(@, action.payload)]
      [] OTHER -> state

RECURSIVE Reduced(_, _)
Reduced(state, actions) ==
    IF Len(actions) = 0 THEN state
    ELSE Reduced(appReducer(state, Head(actions)), Tail(actions))

\* dispatch(action) for each of actions, in order.
dispatch(actions) ==
    LET state == Reduced(App, actions) IN
    /\ engineers' = state.engineers
    /\ projects' = state.projects
    /\ assignments' = state.assignments
    /\ UNCHANGED <<currentUser, token>>

\* Date.now() as the next flow may read it. The model's clock moves from timer
\* to timer; a flow started between two timers reads the millisecond the flow
\* before it read, or the one after.
DateNow ==
    {ToString(now + k) : k \in {Len(writes)} \cup {j \in {Len(writes) - 1} : j >= 0}}

\* The reading of a flow started a millisecond after the flow before it.
NextMillisecond == ToString(now + Len(writes))

\* The flow whose revertFn the tracker holds under id.
Registrant(id) == CHOOSE w \in DOMAIN writes : writes[w].reg = pendingUpdates[id].reg

\* The synchronous part of a write flow, up to its await: the tentative
\* dispatch, addOptimisticUpdate, the entity event, the request. compensate is
\* the action the revertFn closure dispatches.
StartWrite(op, id, kind, data, tentative, compensate, eventType, eventPayload, target, body) ==
    /\ currentUser # Null
    /\ dispatch(<<tentative>>)
    /\ addOptimisticUpdateThen(id, kind, data, "returns",
                               Emitted(<<>>, eventType, eventPayload, "local", 0))
    /\ writes' = Append(writes, [op |-> op, id |-> id, pc |-> "sent",
                                 reg |-> Len(regs) + 1, compensate |-> compensate,
                                 target |-> target, body |-> body,
                                 response |-> <<>>, error |-> "none"])
    /\ UNCHANGED <<now, server, localStorage, busVars, providerVars>>

AddEngineer(name, ms) ==
    LET tempId == "temp-" \o ms
        engineerData == << <<"name", name>> >>
        optimisticEngineer == Spread(engineerData, << <<"id", tempId>> >>)
    IN StartWrite("addEngineer", tempId, "engineer:add", optimisticEngineer,
                  Action("ADD_ENGINEER", optimisticEngineer),
                  Action("SET_ENGINEERS", Without(engineers, tempId)),
                  "engineer:added", optimisticEngineer, tempId, engineerData)

UpdateEngineer(id, name, ms) ==
    /\ Find(engineers, id) # <<>>
    /\ LET currentEngineer == Find(engineers, id)[1]
           updateId == "update-" \o id \o "-" \o ms
           engineerData == << <<"name", name>> >>
       IN StartWrite("updateEngineer", updateId, "engineer:update",
                     [id |-> id, data |-> engineerData],
                     Action("UPDATE_ENGINEER", [id |-> id, engineer |-> engineerData]),
                     Action("UPDATE_ENGINEER", [id |-> id, engineer |-> currentEngineer]),
                     "engineer:updated", [id |-> id, data |-> engineerData],
                     id, engineerData)

AddProject(name, ms) ==
    LET tempId == "temp-" \o ms
        projectData == << <<"name", name>> >>
        optimisticProject ==
            Spread(projectData, << <<"id", tempId>>, <<"createdAt", ms>>,
                                   <<"createdBy", currentUser>> >>)
    IN StartWrite("addProject", tempId, "project:add", optimisticProject,
                  Action("ADD_PROJECT", optimisticProject),
                  Action("SET_PROJECTS", Without(projects, tempId)),
                  "project:added", optimisticProject, tempId, projectData)

AddAssignment(engineerId, allocationPercentage, ms) ==
    LET tempId == "temp-" \o ms
        assignmentData == << <<"engineerId", BareId(engineerId)>>,
                             <<"allocationPercentage", allocationPercentage>> >>
        optimisticAssignment ==
            Spread(assignmentData, << <<"id", tempId>>, <<"createdAt", ms>>,
                                      <<"createdBy", currentUser>> >>)
    IN StartWrite("addAssignment", tempId, "assignment:add", optimisticAssignment,
                  Action("ADD_ASSIGNMENT", optimisticAssignment),
                  Action("REMOVE_ASSIGNMENT", tempId),
                  "assignment:added", optimisticAssignment, tempId, assignmentData)

RemoveAssignment(id, ms) ==
    /\ Find(assignments, id) # <<>>
    /\ LET assignment == Find(assignments, id)[1]
           removeId == "remove-" \o id \o "-" \o ms
       IN StartWrite("removeAssignment", removeId, "assignment:remove", [id |-> id],
                     Action("REMOVE_ASSIGNMENT", id),
                     Action("ADD_ASSIGNMENT", assignment),
                     "assignment:removed", [id |-> id], id, <<>>)

\* The id the remote authority gives the record created by flow w.
ServerId(w) == "s" \o ToString(w)

\* The record the remote authority makes of the request of flow w; it answers
\* an assignment with its engineer populated or not.
Created(w, populated) ==
    LET body == writes[w].body IN
    IF writes[w].op = "addAssignment" /\ populated
    THEN Assignment(ServerId(w),
                    Populated(Get(body, "engineerId")[2], "a"),
                    Get(body, "allocationPercentage"))
    ELSE Spread(<< <<"id", ServerId(w)>> >>, body)

\* The remote authority carries out the request of flow w.
RemoteApplies(w, populated) ==
    /\ w \in DOMAIN writes
    /\ writes[w].pc = "sent"
    /\ isOnline
    /\ populated => writes[w].op = "addAssignment"
    /\ LET op == writes[w].op
           target == writes[w].target
       IN CASE op = "addEngineer" ->
                 /\ server' = [server EXCEPT !.engineers = Append(@, Created(w, populated))]
                 /\ writes' = [writes EXCEPT ![w].pc = "applied",
                                              ![w].response = <<Created(w, populated)>>]
            [] op = "addProject" ->
                 /\ server' = [server EXCEPT !.projects = Append(@, Created(w, populated))]
                 /\ writes' = [writes EXCEPT ![w].pc = "applied",
                                              ![w].response = <<Created(w, populated)>>]
            [] op = "addAssignment" ->
                 /\ server' = [server EXCEPT !.assignments = Append(@, Created(w, populated))]
                 /\ writes' = [writes EXCEPT ![w].pc = "applied",
                                              ![w].response = <<Created(w, populated)>>]
            [] op = "updateEngineer" ->
                 /\ Find(server.engineers, target) # <<>>
                 /\ server' = [server EXCEPT !.engineers =
                                   Patched(@, target, writes[w].body)]
                 /\ writes' = [writes EXCEPT ![w].pc = "applied",
                                   ![w].response =
                                       <<Spread(Find(server.engineers, target)[1],
                                                writes[w].body)>>]
            [] op = "removeAssignment" ->
                 /\ server' = [server EXCEPT !.assignments = Without(@, target)]
                 /\ writes' = [writes EXCEPT ![w].pc = "applied"]
    /\ UNCHANGED <<storeVars, localStorage, trackerVars, busVars, providerVars>>

\* What the flow dispatches after confirmOptimisticUpdate.
Confirmation(w) ==
    LET op == writes[w].op
        id == writes[w].id
    IN CASE op = "addEngineer" ->
               <<Action("UPDATE_ENGINEER", [id |-> id, engineer |-> writes[w].response[1]])>>
         [] op = "updateEngineer" ->
               <<Action("UPDATE_ENGINEER", [id |-> writes[w].target,
                                            engineer |-> writes[w].response[1]])>>
         [] op = "addProject" ->
               <<Action("UPDATE_PROJECT", [id |-> id, project |-> writes[w].response[1]])>>
         [] op = "addAssignment" ->
               <<Action("REMOVE_ASSIGNMENT", id),
                 Action("ADD_ASSIGNMENT", writes[w].response[1])>>
         [] op = "removeAssignment" -> <<>>

\* The entity of the events of flow w.
EntityOf(w) ==
    IF writes[w].op \in {"addEngineer", "updateEngineer"} THEN "engineer"
    ELSE IF writes[w].op = "addProject" THEN "project" ELSE "assignment"

\* The response of flow w arrives: confirmOptimisticUpdate, the dispatches,
\* the <entity>:confirmed event.
WriteSucceeds(w) ==
    /\ w \in DOMAIN writes
    /\ writes[w].pc = "applied"
    /\ confirmOptimisticUpdateThen(writes[w].id,
           Emitted(<<>>, EntityOf(w) \o ":confirmed",
                   IF writes[w].op = "removeAssignment"
                   THEN [id |-> writes[w].target, action |-> "remove"]
                   ELSE writes[w].response[1],
                   "local", 0))
    /\ dispatch(Confirmation(w))
    /\ writes' = [writes EXCEPT ![w].pc = "done"]
    /\ UNCHANGED <<timers, now, server, localStorage, busVars, providerVars>>

\* What fetchWithErrorHandling throws to a write flow: the NetworkError it
\* makes of a rejected fetch, or the AuthenticationError parseApiError makes
\* of a 401 response.
WriteErrors ==
    {[name |-> "NetworkError", message |-> "Unable to connect to server. Please check your internet connection."],
     [name |-> "AuthenticationError", message |-> "Unauthorized"]}

\* ErrorHandler.handle, for what it changes: handleAuthError removes the
\* persisted credential and dispatches the window event auth:logout, which
\* nothing listens to.
handle(error) ==
    localStorage' = IF error.name = "AuthenticationError" THEN Null ELSE localStorage

\* The request of flow w fails with error: fetchWithErrorHandling calls handle
\* before it throws, the catch block calls revertOptimisticUpdate, which runs
\* the revertFn stored under the flow's id, and emits <entity>:error.
WriteFails(w, error) ==
    /\ w \in DOMAIN writes
    /\ writes[w].pc = "sent"
    /\ handle(error)
    /\ revertOptimisticUpdateThen(writes[w].id, "revert",
           Emitted(<<>>, EntityOf(w) \o ":error", [error |-> error.message],
                   "local", 0))
    /\ IF writes[w].id \in DOMAIN pendingUpdates
       THEN dispatch(<<writes[Registrant(writes[w].id)].compensate>>)
       ELSE UNCHANGED storeVars
    /\ writes' = [writes EXCEPT ![w].pc = "failed", ![w].error = error.name]
    /\ UNCHANGED <<timers, now, server, busVars, providerVars>>

\* The expiry timer of a flow's registration runs: revertOptimisticUpdate and,
\* through the revertFn stored under the id, the compensating action.
WriteTimerFires(t) ==
    /\ t \in timers
    /\ now >= t.due
    /\ timers' = timers \ {t}
    /\ IF t.id \in DOMAIN pendingUpdates
       THEN /\ revertOptimisticUpdate(t.id, "timeout")
            /\ dispatch(<<writes[Registrant(t.id)].compensate>>)
       ELSE /\ UNCHANGED <<pendingUpdates, events, regs, storeVars>>
            /\ lastOp' = [op |-> "timeout", id |-> t.id, reg |-> 0,
                          hit |-> FALSE, threw |-> FALSE]
    /\ UNCHANGED <<now, server, writes, localStorage, busVars, providerVars>>

\* const getEngineerWorkload = (engineerId: string): number
RECURSIVE Sum(_)
Sum(seq) == IF Len(seq) = 0 THEN 0 ELSE Head(seq) + Sum(Tail(seq))

getEngineerWorkload(engineerId) ==
    LET mine == SelectSeq(assignments,
                    LAMBDA assignment :
                        Get(assignment, "engineerId") = BareId(engineerId))
    IN Sum([i \in 1..Len(mine) |-> Get(mine[i], "allocationPercentage")])

\* What the remote authority holds when the session starts: engineer e1 with
\* one assignment of 50, its engineer a bare id or populated.
WriteBases ==
    {[engineers |-> <<Rec("e1", "a")>>, projects |-> <<>>, assignments |-> a] :
        a \in {<<Assignment("a1", BareId("e1"), 50)>>,
               <<Assignment("a1", Populated("e1", "a"), 50)>>}}

\* The write flows with the engine: a session whose login sync and
\* fetchAllData have completed.
InitWrites ==
    /\ BusInit
    /\ pendingUpdates = <<>> /\ timers = {} /\ now = 0 /\ regs = <<>>
    /\ lastOp = [op |-> "none", id |-> "", reg |-> 0, hit |-> FALSE, threw |-> FALSE]
    /\ currentUser = "u1" /\ token = "t1" /\ localStorage = "t1"
    /\ server \in WriteBases
    /\ engineers = server.engineers
    /\ projects = server.projects
    /\ assignments = server.assignments
    /\ lastSyncDataRef = <<server>>
    /\ syncs = << [trigger |-> "login", pc |-> "done", fetched |-> <<server>>,
                   promise |-> "fulfilled",
                   online |-> TRUE, currentData |-> EmptySnapshot] >>
    /\ events = << Event("sync:start", <<>>, "local", -1),
                   Event("sync:complete", [data |-> server], "server", -1) >>
    /\ isAutoSyncEnabledRef = TRUE
    /\ isOnline = TRUE
    /\ visibilityState = "visible"
    /\ isSyncing = FALSE
    /\ realtimeIsOnline = TRUE
    /\ effectApp = App
    /\ syncTimers = {[kind |-> "interval", due |-> IntervalMs, at |-> 0,
                      online |-> TRUE, app |-> LoginApp]}
    /\ loads = << [pc |-> "done", fetched |-> <<server>>] >>
    /\ writes = <<>>

\* The flows explored: any one of the five, and an updateEngineer after it,
\* each reading a millisecond of its own.
NextWrites ==
    \/ (writes = <<>> /\ AddEngineer("c", NextMillisecond))
    \/ UpdateEngineer("e1", "b", NextMillisecond)
    \/ (writes = <<>> /\ AddProject("q", NextMillisecond))
    \/ (writes = <<>> /\ AddAssignment("e1", 60, NextMillisecond))
    \/ (writes = <<>> /\ RemoveAssignment("a1", NextMillisecond))
    \/ \E w \in 1..MaxRegs, populated \in BOOLEAN : RemoteApplies(w, populated)
    \/ \E w \in 1..MaxRegs : WriteSucceeds(w)
    \/ \E w \in 1..MaxRegs, error \in WriteErrors : WriteFails(w, error)
    \/ \E t \in timers : WriteTimerFires(t)
    \/ TimePasses
    \/ ForceSync
    \/ \E s \in 1..MaxSyncs : FetchServerDataResponds(s)
    \/ \E s \in 1..MaxSyncs : PerformSyncResumes(s)

SpecWrites == InitWrites /\ [][NextWrites]_vars

(***************************************************************************)
(* Claims about the event bus (SpecBus)                                    *)
(***************************************************************************)

\* The h-th call was a subscribe and the closure it returned has been called.
CalledUnsubscribe(h) ==
    \E j \in (h + 1)..Len(hist) : hist[j].op = "unsubscribe" /\ hist[j].h = h

\* Some subscribe(type, listener) call has not had its own unsubscribe closure called.
ActiveSubscription(type, listener) ==
    \E i \in 1..Len(hist) :
        /\ hist[i].op = "subscribe" /\ hist[i].type = type /\ hist[i].fn = listener
        /\ ~CalledUnsubscribe(i)

\* Some subscribe(type, listener) call has been followed by no call of any
\* unsubscribe closure returned for the same type and listener function.
Registered(type, listener) ==
    \E i \in 1..Len(hist) :
        /\ hist[i].op = "subscribe" /\ hist[i].type = type /\ hist[i].fn = listener
        /\ \A j \in (i + 1)..Len(hist) :
              ~(hist[j].op = "unsubscribe" /\ hist[j].type = type /\ hist[j].fn = listener)

\* C1 as stated: after any sequence of subscribe, unsubscribe and emit calls, an
\* emit of type T invokes every listener whose subscribe(T, .) call came before
\* the emit and whose own unsubscribe call has not been made, and invokes no
\* listener without such a subscription for T or for the wildcard.
C1_Original ==
    lastEmit.type # "none" =>
        /\ \A f \in Listeners :
              ActiveSubscription(lastEmit.type, f) => f \in Range(lastEmit.invoked)
        /\ \A f \in Range(lastEmit.invoked) :
              ActiveSubscription(lastEmit.type, f) \/ ActiveSubscription(Wildcard, f)

\* What the bus does instead: registrations are keyed by (type, listener
\* function). An emit of type T invokes exactly the listener functions that
\* were subscribed for T or for the wildcard and for which no unsubscribe
\* closure of that same type and function has been called since.
RegisteredListenersReceive ==
    lastEmit.type # "none" =>
        \A f \in Listeners :
            f \in Range(lastEmit.invoked)
                <=> (Registered(lastEmit.type, f) \/ Registered(Wildcard, f))

\* C2: when a listener throws during emit(type, payload), every listener
\* registered for the type and every listener registered for the wildcard is
\* still invoked, once per registration, and emit returns normally.
C2_ThrowingListenerContained ==
    (lastEmit.type # "none" /\ lastEmit.thrown # {}) =>
        /\ ~lastEmit.threw
        /\ \A f \in Listeners :
              (Registered(lastEmit.type, f) \/ Registered(Wildcard, f))
                  => f \in Range(lastEmit.invoked)
        /\ Len(lastEmit.invoked) =
              Cardinality({f \in Listeners : Registered(lastEmit.type, f)})
              + Cardinality({f \in Listeners : Registered(Wildcard, f)})

\* C2 witness: the first listener invoked threw, and a listener of the type and
\* a wildcard listener were invoked after it.
C2_Witness ==
    /\ lastEmit.type \notin {"none", Wildcard}
    /\ Len(lastEmit.invoked) >= 3
    /\ lastEmit.invoked[1] \in lastEmit.thrown
    /\ Registered(lastEmit.type, lastEmit.invoked[2])
    /\ Registered(Wildcard, lastEmit.invoked[3])

(***************************************************************************)
(* Claims about the optimistic update tracker (SpecTracker)                *)
(***************************************************************************)

Regs == 1..Len(regs)

\* The events emitted by the tracker for registration r, as <<type, source>>.
EventsBy(r) ==
    LET mine == SelectSeq(events, LAMBDA e : e.by = r) IN
    [i \in 1..Len(mine) |-> <<mine[i].type, mine[i].source>>]

CountBy(r, type) ==
    Cardinality({i \in 1..Len(events) : events[i].by = r /\ events[i].type = type})

\* The entry stored by registration r is in the tracker.
IsPending(r) ==
    /\ regs[r].id \in DOMAIN pendingUpdates
    /\ pendingUpdates[regs[r].id].reg = r

\* The id of registration r was not pending when addOptimisticUpdate was called.
Fresh(r) == regs[r].id \notin regs[r].before

\* The expiry timer scheduled by registration r has not run yet.
TimerScheduled(r) == \E t \in timers : t.reg = r

\* C3 as stated: addOptimisticUpdate called with an id that is already pending
\* leaves the existing entry in place, emits no optimistic:<kind> event,
\* schedules no further expiry timer and throws nothing.
C3_Original ==
    (lastOp.op = "add" /\ ~Fresh(lastOp.reg)) =>
        /\ ~lastOp.threw
        /\ pendingUpdates[lastOp.id].reg # lastOp.reg
        /\ CountBy(lastOp.reg, "optimistic:" \o regs[lastOp.reg].type) = 0
        /\ ~TimerScheduled(lastOp.reg)

\* C4: addOptimisticUpdate for an id that is not pending, followed immediately
\* by confirmOptimisticUpdate of that id, leaves the tracker holding what it held
\* before the add (nothing, when it was empty), emits exactly one
\* optimistic:<kind> event with source local and then exactly one
\* confirmed:<kind> event with source server, and the compensating action of
\* that registration is never invoked, also once its expiry timer has run.
C4_AddThenConfirm ==
    \A r \in Regs :
        (Fresh(r) /\ regs[r].confirmed = "immediately") =>
            /\ EventsBy(r) = << <<"optimistic:" \o regs[r].type, "local">>,
                                <<"confirmed:" \o regs[r].type, "server">> >>
            /\ regs[r].compensated = 0
            /\ ~IsPending(r)
            /\ (lastOp.op = "confirm" /\ lastOp.reg = r)
                  => DOMAIN pendingUpdates = regs[r].before

\* C4 witness: a registration into the empty tracker with a compensating action
\* was confirmed at once, its expiry timer has since run, and nothing is pending.
C4_Witness ==
    \E r \in Regs :
        /\ Fresh(r) /\ regs[r].confirmed = "immediately"
        /\ regs[r].before = {} /\ regs[r].revert # "none"
        /\ ~TimerScheduled(r)
        /\ lastOp.op = "timeout"
        /\ pendingUpdates = <<>>

\* C5 as stated: addOptimisticUpdate with a compensating action for an id that
\* is not pending, followed by revertOptimisticUpdate of that id, invokes the
\* compensating action exactly once, removes the entry and emits exactly one
\* reverted:<kind> event with source local.
C5_Original ==
    (lastOp.op = "revert" /\ lastOp.hit /\ Fresh(lastOp.reg)
        /\ regs[lastOp.reg].revert # "none") =>
        /\ regs[lastOp.reg].compensated = 1
        /\ ~IsPending(lastOp.reg)
        /\ EventsBy(lastOp.reg) = << <<"optimistic:" \o regs[lastOp.reg].type, "local">>,
                                     <<"reverted:" \o regs[lastOp.reg].type, "local">> >>

\* C6 as stated: once the expiry timer of a registration has run, its entry is
\* no longer pending; if it was not confirmed it was reverted exactly once (one
\* reverted:<kind> event, the compensating action invoked once when supplied);
\* and no later confirm or revert call finds an entry whose timer has run.
C6_Original ==
    /\ \A r \in Regs :
          ~TimerScheduled(r) =>
              /\ ~IsPending(r)
              /\ CountBy(r, "confirmed:" \o regs[r].type) = 0 =>
                    /\ CountBy(r, "reverted:" \o regs[r].type) = 1
                    /\ regs[r].compensated = (IF regs[r].revert = "none" THEN 0 ELSE 1)
    /\ (lastOp.op \in {"confirm", "revert"} /\ lastOp.hit) => TimerScheduled(lastOp.reg)

\* C7 as stated: a confirm or revert call repeated on the same id changes
\* neither the tracker, nor the emitted events, nor the number of invocations of
\* any compensating action; and a call on an id that is not pending changes
\* nothing and emits nothing.
C7_Original ==
    [][ /\ (lastOp'.op \in {"confirm", "revert"} /\ lastOp.op = lastOp'.op
               /\ lastOp.id = lastOp'.id)
            => UNCHANGED <<pendingUpdates, events, regs>>
        /\ lastOp'.op = "miss" => UNCHANGED <<pendingUpdates, events, regs>> ]_vars

\* C8 as stated: when the compensating action of a pending entry throws,
\* revertOptimisticUpdate (called by a caller or by the expiry timer) returns
\* normally, removes the entry and emits reverted:<kind>.
C8_Original ==
    (lastOp.op \in {"revert", "timeout"} /\ lastOp.hit
        /\ regs[lastOp.reg].revert = "throws") =>
        /\ ~lastOp.threw
        /\ ~IsPending(lastOp.reg)
        /\ CountBy(lastOp.reg, "reverted:" \o regs[lastOp.reg].type) = 1

(***************************************************************************)
(* Claims about the diff step (SpecDiff)                                   *)
(***************************************************************************)

Collections == {"engineers", "projects", "assignments"}
Entity == [c \in Collections |->
              IF c = "engineers" THEN "engineer"
              ELSE IF c = "projects" THEN "project" ELSE "assignment"]

CountEvents(type) == Cardinality({i \in 1..Len(events) : events[i].type = type})

Ids(coll) == {Get(coll[i], "id") : i \in 1..Len(coll)}

\* Records of coll whose id is not in other.
NotIn(coll, other) ==
    Cardinality({i \in 1..Len(coll) : Get(coll[i], "id") \notin Ids(other)})

\* Records of newColl whose id is in oldColl with different content.
ContentDiffers(newColl, oldColl) ==
    Cardinality({i \in 1..Len(newColl) :
        \E j \in 1..Len(oldColl) :
            /\ Get(oldColl[j], "id") = Get(newColl[i], "id")
            /\ Content(oldColl[j]) # Content(newColl[i])})

\* Records of newColl whose id is in oldColl, serialized differently.
SerializationDiffers(newColl, oldColl) ==
    Cardinality({i \in 1..Len(newColl) :
        \E j \in 1..Len(oldColl) :
            /\ Get(oldColl[j], "id") = Get(newColl[i], "id")
            /\ oldColl[j] # newColl[i]})

\* The aggregate event, when one was emitted, is the last event, is the only
\* one, and its counts are the numbers of per-record events named by prefix.
AggregateMatches(prefix) ==
    LET total == Len(events) - CountEvents("external:changes-detected") IN
    /\ CountEvents("external:changes-detected") = (IF total > 0 THEN 1 ELSE 0)
    /\ total > 0 =>
          LET agg == events[Len(events)] IN
          /\ agg.type = "external:changes-detected" /\ agg.source = "server"
          /\ \A c \in Collections :
                /\ agg.payload.added[c] = CountEvents("external:" \o prefix[c] \o ":added")
                /\ agg.payload.removed[c] = CountEvents("external:" \o prefix[c] \o ":removed")
                /\ agg.payload.updated[c] = CountEvents("external:" \o prefix[c] \o ":updated")

Syncs == 1..Len(syncs)

\* The events emitted by performSync invocation s, as <<type, source>>.
SyncEvents(s) == EventsBy(-s)

\* The store's three collections.
Store == [engineers |-> engineers, projects |-> projects, assignments |-> assignments]
StoreAfter == [engineers |-> engineers', projects |-> projects', assignments |-> assignments']

\* The fetch of invocation s fails in this step.
FetchFailsNow(s) ==
    /\ s \in Syncs
    /\ syncs[s].pc = "fetching"
    /\ syncs'[s].pc = "failed"

\* C9: when the snapshot fetch of a performSync fails, whatever started it and
\* whether or not the device is online, the invocation has emitted sync:start
\* followed by sync:error carrying a message and nothing else (no
\* sync:complete, no external:* event), then and ever after, and the step that
\* handles the failure leaves the store's engineers, projects and assignments
\* collections and the last-known snapshot as they were.
C9_FetchFailureChangesNothing ==
    /\ [](\A s \in Syncs :
             syncs[s].pc = "failed" =>
                /\ SyncEvents(s) = << <<"sync:start", "local">>, <<"sync:error", "local">> >>
                /\ \A i \in 1..Len(events) :
                      (events[i].by = -s /\ events[i].type = "sync:error") =>
                          events[i].payload.error
                              \in {"Failed to fetch server data", "Failed to fetch"})
    /\ [][\A s \in Syncs :
             FetchFailsNow(s) =>
                /\ StoreAfter = Store
                /\ lastSyncDataRef' = lastSyncDataRef
                /\ currentUser' = currentUser /\ token' = token
                /\ pendingUpdates' = pendingUpdates]_vars

\* C9 witness: a forceSync made while offline, after an earlier sync had
\* committed a snapshot, has failed; the store and the last-known snapshot hold
\* the snapshot of the earlier sync.
C9_Witness ==
    \E s \in Syncs :
        /\ syncs[s].pc = "failed"
        /\ syncs[s].trigger = "forceSync"
        /\ ~syncs[s].online
        /\ events[Len(events)].by = -s
        /\ events[Len(events)].type = "sync:error"
        /\ lastSyncDataRef # NoSnapshot
        /\ lastSyncDataRef[1] = Store
        /\ \E d \in Syncs : syncs[d].pc = "done"

(***************************************************************************)
(* Claims about one resumed performSync (SpecResume)                       *)
(***************************************************************************)

\* The snapshot the store and the engine held when invocation s started.
Previous(s) == syncs[s].currentData
Fetched(s) == syncs[s].fetched[1]

\* Two collections hold, position by position, records with the same content.
SameContent(a, b) ==
    /\ Len(a) = Len(b)
    /\ \A i \in 1..Len(a) : Content(a[i]) = Content(b[i])

StructurallyIdentical(x, y) == \A c \in Collections : SameContent(x[c], y[c])

\* The external:* events emitted by invocation s.
ExternalEvents(s) ==
    {i \in 1..Len(events) :
        /\ events[i].by = -s
        /\ events[i].type \notin {"sync:start", "sync:complete", "sync:error",
                                  "sync:conflict-resolved"}}

AggregateEvents(s) ==
    {i \in ExternalEvents(s) : events[i].type = "external:changes-detected"}

ResumesNow(s) ==
    /\ s \in Syncs
    /\ syncs[s].pc = "responded"
    /\ syncs'[s].pc = "done"

\* The events emitted in this step.
NewEvents == SubSeq(events', Len(events) + 1, Len(events'))

ConflictEvents(evs) == SelectSeq(evs, LAMBDA ev : ev.type = "sync:conflict-resolved")

\* v is an object of the three collections, not a list of pending data.
IsCollections(v) == DOMAIN v = Collections

\* C12 as stated: a performSync that resumes while the tracker holds a pending
\* entry emits exactly one sync:conflict-resolved event carrying the strategy
\* 'server-wins', the server data and the data of the pending entries, and
\* replaces the store's collections by the fetched snapshot; with no entry
\* pending it emits no sync:conflict-resolved and commits the fetched snapshot;
\* either way the pending entries are left as they were.
C12_Original ==
    [][\A s \in Syncs :
          ResumesNow(s) =>
             /\ StoreAfter = Fetched(s)
             /\ pendingUpdates' = pendingUpdates
             /\ IF DOMAIN pendingUpdates # {}
                THEN /\ Len(ConflictEvents(NewEvents)) = 1
                     /\ ConflictEvents(NewEvents)[1].payload.strategy = "server-wins"
                     /\ ConflictEvents(NewEvents)[1].payload.serverData = Fetched(s)
                     /\ ~IsCollections(ConflictEvents(NewEvents)[1].payload.localData)
                ELSE Len(ConflictEvents(NewEvents)) = 0]_vars

\* What the engine does instead: the event carries the store's collections as
\* the render that created this performSync saw them.
ConflictResolvedCarriesStoreData ==
    [][\A s \in Syncs :
          ResumesNow(s) =>
             /\ StoreAfter = Fetched(s)
             /\ pendingUpdates' = pendingUpdates
             /\ IF DOMAIN pendingUpdates # {}
                THEN /\ Len(ConflictEvents(NewEvents)) = 1
                     /\ ConflictEvents(NewEvents)[1].payload.strategy = "server-wins"
                     /\ ConflictEvents(NewEvents)[1].payload.serverData = Fetched(s)
                     /\ ConflictEvents(NewEvents)[1].payload.localData = syncs[s].currentData
                ELSE Len(ConflictEvents(NewEvents)) = 0]_vars

\* The collections a sync:conflict-resolved event reports as local data are not
\* always the store's collections at the time of the event.
ConflictLocalDataIsCurrent ==
    [][\A s \in Syncs :
          (ResumesNow(s) /\ DOMAIN pendingUpdates # {}) =>
              ConflictEvents(NewEvents)[1].payload.localData = Store]_vars
\* The place of an event of performSync in the order of its steps.
StepOf(type) ==
    CASE type = "sync:start" -> 0
      [] type = "sync:conflict-resolved" -> 2
      [] type \in {"sync:complete", "sync:error"} -> 3
      [] OTHER -> 1

\* The types of the events emitted by invocation s, in the order of emission.
TypesOf(s) ==
    LET mine == SelectSeq(events, LAMBDA ev : ev.by = -s) IN
    [i \in 1..Len(mine) |-> mine[i].type]

CountOf(seq, x) == Cardinality({i \in 1..Len(seq) : seq[i] = x})

\* C13: the events of a performSync that succeeded are sync:start first, then
\* the external:* events of the diff, then sync:conflict-resolved if there is
\* one, then sync:complete last and once; and the step that emits
\* sync:complete has, with it, replaced the store's three collections and the
\* last-known snapshot by the snapshot that invocation fetched, and emits
\* sync:complete as the last event of the step.
C13_StepsInOrder ==
    /\ [](\A s \in Syncs :
             syncs[s].pc = "done" =>
                LET types == TypesOf(s) IN
                /\ Len(types) >= 2
                /\ types[1] = "sync:start"
                /\ types[Len(types)] = "sync:complete"
                /\ CountOf(types, "sync:start") = 1
                /\ CountOf(types, "sync:complete") = 1
                /\ CountOf(types, "sync:conflict-resolved") <= 1
                /\ \A i, j \in 1..Len(types) :
                      i < j => StepOf(types[i]) <= StepOf(types[j]))
    /\ [][\A s \in Syncs :
             ResumesNow(s) =>
                /\ StoreAfter = Fetched(s)
                /\ lastSyncDataRef' = <<Fetched(s)>>
                /\ NewEvents[Len(NewEvents)].type = "sync:complete"
                /\ NewEvents[Len(NewEvents)].payload.data = Fetched(s)
                /\ \A i \in 1..Len(events') :
                      (events'[i].by = -s /\ events'[i].type = "sync:complete") =>
                          i = Len(events')]_vars

\* An invocation has reported a diff, resolved a conflict and completed.
C13_Witness ==
    \E s \in Syncs :
       /\ syncs[s].pc = "done"
       /\ ExternalEvents(s) # {}
       /\ CountOf(TypesOf(s), "sync:conflict-resolved") = 1
       /\ Store = Fetched(s)
       /\ lastSyncDataRef = <<Fetched(s)>>
(***************************************************************************)
(* Claims about the scheduling of performSync (SpecSync)                   *)
(***************************************************************************)

\* The invocations of performSync that have started and not finished.
InProgress == {s \in Syncs : syncs[s].pc \in {"fetching", "responded"}}

\* Invocation s commits its snapshot while an invocation that started its
\* fetch earlier is still to commit.
CommitsOutOfOrder(s) ==
    /\ ResumesNow(s)
    /\ \E r \in Syncs : r < s /\ syncs[r].pc \in {"fetching", "responded"}

\* C14 as stated: at most one performSync invocation is in progress at any
\* time, whatever triggers the next one (forceSync, an interval tick, the login
\* effect, a delayed online trigger), and no invocation commits its snapshot
\* to the store and the last-known snapshot before an invocation whose fetch
\* started earlier.
C14_Original ==
    /\ [](Cardinality(InProgress) <= 1)
    /\ [][\A s \in Syncs : ~CommitsOutOfOrder(s)]_vars

\* The second half of C14 alone: snapshots are committed in the order in which
\* their fetches were started.
CommitsFollowFetchOrder == [][\A s \in Syncs : ~CommitsOutOfOrder(s)]_vars
\* A performSync invocation triggered by trigger starts in this step.
StartsNow(trigger) ==
    /\ Len(syncs') = Len(syncs) + 1
    /\ syncs'[Len(syncs')].trigger = trigger

\* The interval callback runs in this step.
TickNow ==
    \E t \in syncTimers :
       /\ t.kind = "interval"
       /\ now >= t.due
       /\ [t EXCEPT !.due = t.due + IntervalMs] \in syncTimers'
       /\ t \notin syncTimers'

\* The timeouts of the engine waiting to call performSync.
Scheduled(T) == {t \in T : t.kind \in {"online", "focus"}}

\* C15 as stated: an interval tick starts a performSync only if, when it
\* fires, auto-sync is enabled, the device is online and the document is
\* visible; and a tick schedules nothing for later.
C15_Original ==
    [][/\ StartsNow("interval") =>
             /\ isAutoSyncEnabledRef
             /\ isOnline
             /\ visibilityState = "visible"
       /\ TickNow => Scheduled(syncTimers') = Scheduled(syncTimers)]_vars

\* What the interval callback checks instead of the device being online: the
\* isOnline of the context value its render closed over.
TickChecksCapturedOnline ==
    [][StartsNow("interval") =>
          /\ isAutoSyncEnabledRef
          /\ visibilityState = "visible"
          /\ \E t \in syncTimers : t.kind = "interval" /\ t.online]_vars
\* The device comes online, or the document becomes visible, in this step.
TransitionNow ==
    \/ ~isOnline /\ isOnline'
    \/ visibilityState = "hidden" /\ visibilityState' = "visible"

\* C16 as stated: a transition to online or to the foreground with auto-sync
\* enabled starts no sync in that step and leaves exactly one sync scheduled,
\* due after the fixed delay of its trigger; transitions that follow each other
\* within the delay never leave more than one sync scheduled.
C16_Original ==
    /\ [](Cardinality(Scheduled(syncTimers)) <= 1)
    /\ [][(TransitionNow /\ isAutoSyncEnabledRef) =>
             /\ syncs' = syncs
             /\ Cardinality(Scheduled(syncTimers')) = 1
             /\ \A t \in Scheduled(syncTimers') :
                   t.due \in {now + FocusDelayMs, now + OnlineDelayMs}]_vars

\* What the engine does: every transition with auto-sync enabled starts no
\* sync in that step and adds one timeout of its own to those waiting.
EveryTransitionSchedules ==
    [][(TransitionNow /\ isAutoSyncEnabledRef) =>
          /\ syncs' = syncs
          /\ Cardinality(Scheduled(syncTimers')) = Cardinality(Scheduled(syncTimers)) + 1]_vars
(***************************************************************************)
(* Claims about the store's write flows (SpecWrites)                       *)
(***************************************************************************)

Writes == 1..Len(writes)

\* The engineer a reference resolves to: the bare id, or the _id of the
\* populated object.
ResolvesTo(engineerId) ==
    IF engineerId[1] = "string" THEN engineerId[2] ELSE Get(engineerId[2], "_id")

\* The sum of allocationPercentage over the assignments of coll whose
\* engineerId resolves to E.
DerivedWorkload(coll, E) ==
    LET mine == SelectSeq(coll, LAMBDA a : ResolvesTo(Get(a, "engineerId")) = E)
    IN Sum([i \in 1..Len(mine) |-> Get(mine[i], "allocationPercentage")])

\* C17 as stated: getEngineerWorkload(E) is the sum of allocationPercentage
\* over the assignments in the store whose engineerId resolves to E, a bare id
\* equal to E or a populated object carrying E's id.
C17_Original ==
    \A E \in {"e1", "e2"} : getEngineerWorkload(E) = DerivedWorkload(assignments, E)

\* What getEngineerWorkload computes: the sum over the assignments whose
\* engineerId is the bare id E; a populated reference counts for nobody.
BareReferences(coll) ==
    SelectSeq(coll, LAMBDA a : Get(a, "engineerId")[1] = "string")

WorkloadCountsBareIds ==
    \A E \in {"e1", "e2"} :
        getEngineerWorkload(E) = DerivedWorkload(BareReferences(assignments), E)
\* A flow of op starts in this step.
WriteStartsNow(op) ==
    /\ Len(writes') = Len(writes) + 1
    /\ writes'[Len(writes')].op = op

\* The response of flow w arrives in this step.
SucceedsNow(w) ==
    /\ w \in Writes
    /\ writes[w].pc = "applied"
    /\ writes'[w].pc = "done"

\* The tracker has emitted type for registration r by the end of this step.
EmittedAfter(type, r) ==
    \E i \in 1..Len(events') : events'[i].type = type /\ events'[i].by = r

\* C18 as stated: when addAssignment is called with 60 for e1, who has one
\* assignment of 50, then right after the optimistic add workload(e1) = 110 and
\* optimistic:assignment:add has been emitted; and when the remote call has
\* succeeded the temporary record is not in the store, the server record is,
\* confirmed:assignment:add has been emitted and workload(e1) = 110.
C18_Original ==
    [][/\ (WriteStartsNow("addAssignment")
             /\ Len(assignments) = 1
             /\ DerivedWorkload(assignments, "e1") = 50) =>
                /\ getEngineerWorkload("e1")' = 110
                /\ EmittedAfter("optimistic:assignment:add", writes'[Len(writes')].reg)
       /\ \A w \in Writes :
             (SucceedsNow(w) /\ writes[w].op = "addAssignment") =>
                /\ Find(assignments', writes[w].id) = <<>>
                /\ Find(assignments', ServerId(w)) # <<>>
                /\ EmittedAfter("confirmed:assignment:add", writes[w].reg)
                /\ getEngineerWorkload("e1")' = 110]_vars

\* The references of coll are all bare ids.
AllBare(coll) == BareReferences(coll) = coll

\* The scenario of C18 with bare ids throughout, the answer arriving while the
\* store still holds what the add left and the entry is still pending: 110
\* after the add, and 110 from the server record after the confirmation.
AddAssignmentUndisturbed ==
    [][/\ (WriteStartsNow("addAssignment")
             /\ Len(assignments) = 1 /\ AllBare(assignments)
             /\ DerivedWorkload(assignments, "e1") = 50) =>
                /\ getEngineerWorkload("e1")' = 110
                /\ EmittedAfter("optimistic:assignment:add", writes'[Len(writes')].reg)
       /\ \A w \in Writes :
             (/\ SucceedsNow(w) /\ writes[w].op = "addAssignment"
              /\ writes[w].id \in DOMAIN pendingUpdates
              /\ AllBare(<<writes[w].response[1]>>)
              /\ assignments = <<Assignment("a1", BareId("e1"), 50),
                                 pendingUpdates[writes[w].id].data>>) =>
                /\ Find(assignments', writes[w].id) = <<>>
                /\ Find(assignments', ServerId(w)) # <<>>
                /\ EmittedAfter("confirmed:assignment:add", writes[w].reg)
                /\ getEngineerWorkload("e1")' = 110]_vars

\* The same with bare ids throughout and the entry still pending, whatever a
\* sync has committed in between.
AddAssignmentWithSync ==
    [][\A w \in Writes :
          (/\ SucceedsNow(w) /\ writes[w].op = "addAssignment"
           /\ writes[w].id \in DOMAIN pendingUpdates
           /\ AllBare(<<writes[w].response[1]>>)
           /\ AllBare(server.assignments)) =>
              getEngineerWorkload("e1")' = 110]_vars
\* The compensating action of flow w runs in this step: its entry is taken
\* out of the tracker and reverted:<kind> is emitted for it.
RevertsNow(w) ==
    /\ w \in Writes
    /\ writes[w].id \in DOMAIN pendingUpdates
    /\ writes[w].id \notin DOMAIN pendingUpdates'
    /\ \E i \in (Len(events) + 1)..Len(events') :
          /\ events'[i].by = writes[w].reg
          /\ events'[i].type = "reverted:" \o pendingUpdates[writes[w].id].type

\* The collection flow w writes to.
OwnCollection(w) ==
    IF writes[w].op \in {"addEngineer", "updateEngineer"} THEN "engineers"
    ELSE IF writes[w].op = "addProject" THEN "projects" ELSE "assignments"

\* Every record but the one flow w wrote is in the store after this step as
\* it was before, in the same place.
OthersUnchanged(w) ==
    \A c \in Collections :
        Without(StoreAfter[c], writes[w].target) = Without(Store[c], writes[w].target)

\* The record flow w wrote is after this step as it was before the flow: the
\* temporary record gone, the patched record as it was, the removed one back.
OwnRestored(w) ==
    LET before == Find(Store[OwnCollection(w)], writes[w].target)
        after == SelectSeq(StoreAfter[OwnCollection(w)],
                           LAMBDA r : Get(r, "id") = writes[w].target)
    IN CASE writes[w].op \in {"addEngineer", "addProject", "addAssignment"} ->
               after = <<>>
         [] writes[w].op = "updateEngineer" ->
               before # <<>> => after = <<writes[w].compensate.payload.engineer>>
         [] writes[w].op = "removeAssignment" ->
               after = <<writes[w].compensate.payload>>

\* C19 as stated: when an optimistic write is reverted, by the failure of its
\* remote call or by its timeout, its compensating action restores the record
\* it wrote and leaves every other record of the store, those written by other
\* flows or by a sync since included, as it was.
C19_Original ==
    [][\A w \in Writes : RevertsNow(w) => (OwnRestored(w) /\ OthersUnchanged(w))]_vars

\* The compensating actions that name their record, those of updateEngineer
\* and addAssignment, do what C19 says.
NamedRevertsAreExact ==
    [][\A w \in Writes :
          (RevertsNow(w) /\ writes[w].op \in {"updateEngineer", "addAssignment"}) =>
              (OwnRestored(w) /\ OthersUnchanged(w))]_vars
AddFlows == {"addEngineer", "addProject", "addAssignment"}

\* The add flow w is confirmed in this step: its response is handled while its
\* entry is pending.
ConfirmedNow(w) ==
    /\ SucceedsNow(w)
    /\ writes[w].op \in AddFlows
    /\ writes[w].id \in DOMAIN pendingUpdates

\* C20 as stated: when an add flow whose remote call succeeded has completed,
\* the store holds no record with the flow's temporary id and holds the record
\* the remote authority created, whatever performSync committed while the flow
\* was running.
C20_Original ==
    [][\A w \in Writes :
          ConfirmedNow(w) =>
             /\ Find(StoreAfter[OwnCollection(w)], writes[w].id) = <<>>
             /\ Find(StoreAfter[OwnCollection(w)], ServerId(w)) # <<>>]_vars

\* The first half of C20 alone: no record with the temporary id is left.
NoTemporaryRecordLeft ==
    [][\A w \in Writes :
          ConfirmedNow(w) =>
              Find(StoreAfter[OwnCollection(w)], writes[w].id) = <<>>]_vars

\* C20 for addAssignment, which removes the temporary record and adds the
\* server record whatever the store holds.
AddAssignmentLeavesServerRecord ==
    [][\A w \in Writes :
          (ConfirmedNow(w) /\ writes[w].op = "addAssignment") =>
             /\ Find(assignments', writes[w].id) = <<>>
             /\ Find(assignments', ServerId(w)) # <<>>]_vars
(***************************************************************************)
(* Claims about failures and the session (SpecSync)                        *)
(***************************************************************************)

\* C21 as stated: when the fetch of a performSync started by forceSync()
\* fails, the promise forceSync returned is rejected, and it is fulfilled
\* only when the sync succeeded.
C21_Original ==
    \A s \in Syncs :
        syncs[s].trigger = "forceSync" =>
            /\ syncs[s].pc = "failed" => syncs[s].promise = "rejected"
            /\ syncs[s].promise = "fulfilled" => syncs[s].pc = "done"

\* What the caller of forceSync sees: the promise is fulfilled when the sync
\* has failed as when it has succeeded, and sync:error is the only sign of
\* the failure.
FailedSyncFulfils ==
    \A s \in Syncs :
        /\ syncs[s].promise \in {"pending", "fulfilled"}
        /\ syncs[s].promise = "fulfilled" <=> syncs[s].pc \in {"done", "failed"}
        /\ syncs[s].pc = "failed" => CountBy(-s, "sync:error") = 1
\* The request of write flow w fails with an authentication failure in this step.
AuthFailureNow(w) ==
    /\ w \in DOMAIN writes
    /\ writes[w].pc = "sent"
    /\ writes'[w].pc = "failed"
    /\ writes'[w].error = "AuthenticationError"

\* C22 as stated, for the optimistic flows: when the remote call of a flow
\* fails with an authentication failure the session is ended, that is the
\* persisted credential is cleared and currentUser and token become null.
C22_Original ==
    [][\A w \in Writes :
          AuthFailureNow(w) =>
              /\ localStorage' = Null
              /\ currentUser' = Null
              /\ token' = Null]_vars

\* What the flows do: the credential is removed from localStorage and the
\* store keeps the user and the token the server has just refused.
AuthFailureOfWriteKeepsSession ==
    [][\A w \in Writes :
          AuthFailureNow(w) =>
              /\ localStorage' = Null
              /\ currentUser' = currentUser
              /\ token' = token]_vars
(***************************************************************************)
(* Claims about expiry timers and ids that are used again (SpecTracker)    *)
(***************************************************************************)

\* C23 as stated: an entry registered under an id that was not pending (new,
\* or confirmed or reverted before) is never reverted by an expiry timer
\* earlier than TimeoutMs after its own registration: the timer of an earlier
\* registration of the id has no effect on it.
C23_Original ==
    (lastOp.op = "timeout" /\ lastOp.hit /\ Fresh(lastOp.reg)) =>
        now >= regs[lastOp.reg].timestamp + TimeoutMs

\* An expiry timer reverts whatever entry is pending under its id when it
\* runs: never earlier than TimeoutMs after SOME registration of that id.
TimeoutFollowsSomeRegistration ==
    (lastOp.op = "timeout" /\ lastOp.hit) =>
        \E r \in Regs :
            /\ regs[r].id = lastOp.id
            /\ now >= regs[r].timestamp + TimeoutMs
(***************************************************************************)
(* Claims about disabling auto-sync (SpecTriggers)                         *)
(***************************************************************************)

\* C24 as stated: while auto-sync is disabled, that is from toggleAutoSync(false)
\* until toggleAutoSync(true), neither an interval tick nor a focus or online
\* timeout scheduled earlier starts a performSync.
C24_Original ==
    [][~isAutoSyncEnabledRef =>
          /\ ~StartsNow("interval")
          /\ ~StartsNow("focus")
          /\ ~StartsNow("online")]_vars

\* The part of C24 the code keeps: stopAutoSync clears the interval, so no
\* tick starts a sync while auto-sync is disabled, and a sync in flight when
\* auto-sync was disabled commits its snapshot when it resumes.
DisabledIntervalAndInFlight ==
    [][~isAutoSyncEnabledRef =>
          /\ ~StartsNow("interval")
          /\ \A s \in Syncs :
                (ResumesNow(s) /\ pendingUpdates = <<>>) =>
                    /\ StoreAfter = Fetched(s)
                    /\ lastSyncDataRef' = <<Fetched(s)>>]_vars
(***************************************************************************)
(* Syncs triggered again and again (SpecConverge)                          *)
(***************************************************************************)

\* Every performSync invocation made so far has returned: nothing of the
\* program refers to them any more, and their records and the log of events
\* are dropped.
InvocationsReturned ==
    /\ syncs # <<>>
    /\ \A s \in DOMAIN syncs : syncs[s].pc \in {"done", "failed"}
    /\ syncs' = <<>>
    /\ events' = <<>>
    /\ UNCHANGED <<lastSyncDataRef, isAutoSyncEnabledRef, isOnline, visibilityState, syncTimers,
                   server, isSyncing, realtimeIsOnline, effectApp, loads, writes,
                   storeVars, localStorage, trackerVarsButEvents, busVars>>

\* A session after its login sync, as in SpecTriggers.
InitConverge == InitTriggers

\* Syncs without end, the remote authority changing, and one optimistic flow.
NextConverge ==
    \/ ForceSync
    \/ \E s \in 1..MaxSyncs : FetchServerDataResponds(s)
    \/ \E s \in 1..MaxSyncs : PerformSyncResumes(s)
    \/ \E s \in 1..MaxSyncs, error \in FetchErrors : FetchFails(s, error)
    \/ RemoteChanges
    \/ (writes = <<>> /\ AddAssignment("e1", 60, NextMillisecond))
    \/ \E w \in 1..MaxRegs, populated \in BOOLEAN : RemoteApplies(w, populated)
    \/ \E w \in 1..MaxRegs : WriteSucceeds(w)
    \/ \E w \in 1..MaxRegs, error \in WriteErrors : WriteFails(w, error)
    \/ InvocationsReturned

\* The scheduling the liveness claim relies on: syncs keep being triggered
\* (the interval of startAutoSync, or the user), the remote authority answers
\* a request that is not failing, and the continuation of an await runs.
FairConverge ==
    /\ WF_vars(ForceSync)
    /\ WF_vars(InvocationsReturned)
    /\ \A s \in 1..MaxSyncs :
          /\ WF_vars(FetchServerDataResponds(s))
          /\ WF_vars(PerformSyncResumes(s))

SpecConverge == InitConverge /\ [][NextConverge]_vars /\ FairConverge

\* C25: if from some point on no optimistic write is pending and no fetch of
\* a sync fails, then, the session staying active, syncs being triggered
\* again and again and the remote collections having stopped changing,
\* eventually the store's engineers, projects and assignments equal the
\* remote collections and stay equal.
C25_EventuallyConsistent ==
    (/\ <>[](pendingUpdates = <<>>)
     /\ <>[][\A s \in Syncs : ~FetchFailsNow(s)]_vars)
        => <>[](Store = server)

\* A sync that found the store behind the remote authority has committed, and
\* the store equals the remote collections.
C25_Witness ==
    /\ server # ServerVersions[1]
    /\ Store = server
    /\ \E s \in Syncs :
          /\ syncs[s].pc = "done"
          /\ Fetched(s) = server
          /\ syncs[s].currentData # server
(***************************************************************************)
(* Claims about interleavings of flows, timeouts and syncs (SpecWrites)    *)
(***************************************************************************)

\* No two records of coll have the same id.
UniqueIds(coll) ==
    \A i, j \in 1..Len(coll) : Get(coll[i], "id") = Get(coll[j], "id") => i = j

\* C26 as stated: in every reachable state no store collection holds two
\* records with the same id.
C26_Original == \A c \in Collections : UniqueIds(Store[c])

\* What does hold: the collections the flows only patch or replace, engineers
\* and projects, never hold an id twice, and neither does the remote authority.
PatchedCollectionsUnique ==
    /\ UniqueIds(engineers)
    /\ UniqueIds(projects)
    /\ \A c \in Collections : UniqueIds(server[c])
\* reverted:<kind> has been emitted for the registration of flow w.
Reverted(w) == CountBy(writes[w].reg, "reverted:" \o regs[writes[w].reg].type) > 0

\* C27 as stated: once reverted:<kind> has been emitted for a flow, by its
\* failure or by the expiry timer, the response of its remote call emits no
\* <entity>:confirmed event and leaves the store as it is.
C27_Original ==
    [][\A w \in Writes :
          (SucceedsNow(w) /\ Reverted(w)) =>
              /\ \A i \in 1..Len(NewEvents) :
                    NewEvents[i].type # EntityOf(w) \o ":confirmed"
              /\ StoreAfter = Store]_vars

\* The tracker's own events are exclusive: a registration is never both
\* reverted and confirmed, and is reverted at most once.
TrackerOutcomesExclusive ==
    \A w \in Writes :
        LET r == writes[w].reg
            kind == regs[r].type
        IN CountBy(r, "reverted:" \o kind) + CountBy(r, "confirmed:" \o kind) <= 1
(***************************************************************************)
(* Flows started within one millisecond (SpecIds)                          *)
(***************************************************************************)

\* Two of addEngineer, addProject and addAssignment, the second reading
\* Date.now() in the millisecond of the first or in a later one, the remote
\* authority answering them, and their expiry timers.
NextIds ==
    \/ \E ms \in DateNow : AddEngineer("c", ms)
    \/ \E ms \in DateNow : AddProject("q", ms)
    \/ \E ms \in DateNow : AddAssignment("e1", 60, ms)
    \/ \E w \in 1..MaxRegs, populated \in BOOLEAN : RemoteApplies(w, populated)
    \/ \E w \in 1..MaxRegs : WriteSucceeds(w)
    \/ \E w \in 1..MaxRegs, error \in WriteErrors : WriteFails(w, error)
    \/ \E t \in timers : WriteTimerFires(t)
    \/ TimePasses

SpecIds == InitWrites /\ [][NextIds]_vars

\* Flows v and w are both waiting for their response.
BothPending(v, w) ==
    /\ v # w
    /\ writes[v].pc \in {"sent", "applied"}
    /\ writes[w].pc \in {"sent", "applied"}

\* C28 as stated: two optimistic operations pending at the same time have
\* distinct tracker ids, also when they were started at the same clock
\* reading, and no registration overwrites an entry that is pending.
C28_Original ==
    /\ \A v, w \in Writes : BothPending(v, w) => writes[v].id # writes[w].id
    /\ \A r \in Regs : Fresh(r)

\* Flows that read different milliseconds, or that build their id from the id
\* of a record, do not collide: an id is shared only by flows of the temp-
\* family started in one millisecond.
OnlySameMillisecondCollides ==
    \A v, w \in Writes :
        (v < w /\ writes[v].id = writes[w].id) =>
            /\ regs[writes[v].reg].timestamp = regs[writes[w].reg].timestamp
            /\ writes[w].id = "temp-" \o ToString(regs[writes[w].reg].timestamp + w - 2)
(***************************************************************************)
(* Claims about emit and the wildcard type (SpecBus)                       *)
(***************************************************************************)

\* How many times the emit just made invoked listener f.
Invocations(f) == Cardinality({i \in 1..Len(lastEmit.invoked) : lastEmit.invoked[i] = f})

\* The subscriptions of f that an event of the given type is delivered to:
\* the one for the exact type and the one for the wildcard.
Subscriptions(f, type) ==
    {k \in {type, Wildcard} : f \in Range(ListenersOf(listeners, k))}

\* The listeners of the exact type come first, in their order.
ExactTypeFirst ==
    LET typed == ListenersOf(listeners, lastEmit.type) IN
    /\ Len(lastEmit.invoked) >= Len(typed)
    /\ SubSeq(lastEmit.invoked, 1, Len(typed)) = typed

\* C29 as stated: an emit invokes each subscribed listener at most once for
\* each of its subscriptions the event is delivered to, the listeners of the
\* exact type before the wildcard listeners, also when the emitted type is
\* the wildcard itself.
C29_Original ==
    lastEmit.type # "none" =>
        /\ \A f \in Listeners :
              Invocations(f) <= Cardinality(Subscriptions(f, lastEmit.type))
        /\ ExactTypeFirst

\* For every type but the wildcard the claim holds, with exactly once for at
\* most once; an emit of the wildcard type invokes the wildcard listeners twice.
OncePerSubscriptionButWildcard ==
    lastEmit.type # "none" =>
        /\ ExactTypeFirst
        /\ \A f \in Listeners :
              Invocations(f) =
                  IF lastEmit.type = Wildcard
                  THEN 2 * Cardinality(Subscriptions(f, Wildcard))
                  ELSE Cardinality(Subscriptions(f, lastEmit.type))
(***************************************************************************)
(* Claims about syncs in flight at logout (SpecSync)                       *)
(***************************************************************************)

NoSession == currentUser = Null \/ token = Null

\* C30 as stated: whenever no session is active the last-known snapshot is
\* absent, and a performSync that resumes without a session neither commits
\* to the store nor sets the last-known snapshot.
C30_Original ==
    /\ [](NoSession => lastSyncDataRef = NoSnapshot)
    /\ [][\A s \in Syncs :
            (ResumesNow(s) /\ NoSession) =>
                /\ StoreAfter = Store
                /\ lastSyncDataRef' = NoSnapshot]_vars

\* What the code guarantees: the step that ends the session clears the
\* last-known snapshot and the interval. The session is checked only when
\* performSync is called, and in the render the caller closed over.
SessionEndClearsSnapshot ==
    [][(~NoSession /\ NoSession') =>
          /\ lastSyncDataRef' = NoSnapshot
          /\ \A t \in syncTimers' : t.kind # "interval"]_vars

====
